---- MODULE Spec2Model ----
(***************************************************************************)
(* SQL Sentinel: the server-side SQL permission gatekeeper                 *)
(* (server/middleware/rbac.js), the query route (server/routes/query.js),  *)
(* the administrative routes (server/routes/admin.js, connections.js) and  *)
(* the multi-backend connection pool manager                               *)
(* (server/utils/connectionPool.js).                                       *)
(*                                                                         *)
(* Node.js runs every handler on one thread: a handler runs without        *)
(* interruption up to its next await, so every action below is one such    *)
(* run-to-await segment of one in-flight call.                             *)
(***************************************************************************)
EXTENDS Integers, Sequences, FiniteSets, Bags, TLC

VARIABLES
    users,             \* table users: id -> row
    db_connections,    \* table db_connections: id -> row
    user_db_access,    \* table user_db_access: set of <<user_id, db_connection_id>>
    role_permissions,  \* table role_permissions: <<role, operation>> -> row
    query_logs,        \* table query_logs: bag of rows
    pools,             \* connectionPool.js `pools` Map, in insertion order
    poolObjs,          \* every driver pool constructed so far
    driverOk,          \* engine types whose driver module can be imported
    tasks,             \* the in-flight handler of each task slot
    exited,            \* process.exit(0) has run
    permRes,           \* the last PUT /api/admin/permissions and its status
    gate               \* the last gatekeeper call: its arguments and its result

vars == <<users, db_connections, user_db_access, role_permissions, query_logs, pools,
          poolObjs, driverOk, tasks, exited, permRes, gate>>

----------------------------------------------------------------------------
(* Bounds of the model *)

NumTasks == 2
MaxLog == 2
MaxPools == 2
MaxCfg == 2
MaxFetched == 3

Tasks == 1..NumTasks

----------------------------------------------------------------------------
(* JavaScript values that cross the HTTP boundary *)

Num(i) == <<"number", i>>
Str(s) == <<"string", s>>
Bool(b) == <<"boolean", b>>
Null == <<"null">>
Undefined == <<"undefined">>

\* JavaScript truthiness of a request-body value
Truthy(v) ==
    CASE v[1] = "number" -> v[2] # 0
      [] v[1] = "string" -> v[2] # ""
      [] v[1] = "boolean" -> v[2]
      [] OTHER -> FALSE

Ch(s, i) == SubSeq(s, i, i)

Digits == "0123456789"

IsDigit(c) == \E i \in 1..10 : Ch(Digits, i) = c

DigitVal(c) == (CHOOSE i \in 1..10 : Ch(Digits, i) = c) - 1

RECURSIVE DecimalValue(_)
DecimalValue(s) ==
    IF Len(s) = 0 THEN 0
    ELSE 10 * DecimalValue(SubSeq(s, 1, Len(s) - 1)) + DigitVal(Ch(s, Len(s)))

IsDecimal(s) == Len(s) > 0 /\ \A i \in 1..Len(s) : IsDigit(Ch(s, i))

NaN == -1

\* parseInt of a route parameter or body value (non-negative decimals only)
parseInt(v) ==
    CASE v[1] = "number" -> v[2]
      [] v[1] = "string" -> IF IsDecimal(v[2]) THEN DecimalValue(v[2]) ELSE NaN
      [] OTHER -> NaN

\* SQLite comparison of a bound parameter with an INTEGER column: a numeric
\* text takes the column's affinity, anything else matches no row.
SqliteInteger(v) == parseInt(v)

----------------------------------------------------------------------------
(* Text handling used by the gatekeeper's regular expressions *)

Lower == "abcdefghijklmnopqrstuvwxyz"
Upper == "ABCDEFGHIJKLMNOPQRSTUVWXYZ"

IsSpace(c) == c \in {" ", "\t", "\n"}

IsWordChar(c) ==
    \/ \E i \in 1..26 : Ch(Lower, i) = c \/ Ch(Upper, i) = c
    \/ IsDigit(c)
    \/ c = "_"

ToUpperCh(c) ==
    IF \E i \in 1..26 : Ch(Lower, i) = c
    THEN Ch(Upper, CHOOSE i \in 1..26 : Ch(Lower, i) = c)
    ELSE c

RECURSIVE toUpperCase(_)
toUpperCase(s) ==
    IF Len(s) = 0 THEN ""
    ELSE ToUpperCh(Ch(s, 1)) \o toUpperCase(SubSeq(s, 2, Len(s)))

RECURSIVE trimStart(_)
trimStart(s) ==
    IF Len(s) > 0 /\ IsSpace(Ch(s, 1)) THEN trimStart(SubSeq(s, 2, Len(s))) ELSE s

RECURSIVE trimEnd(_)
trimEnd(s) ==
    IF Len(s) > 0 /\ IsSpace(Ch(s, Len(s)))
    THEN trimEnd(SubSeq(s, 1, Len(s) - 1)) ELSE s

trim(s) == trimEnd(trimStart(s))

\* the text w occurs in s starting at position i
OccursAt(s, w, i) ==
    /\ i >= 1
    /\ i + Len(w) - 1 <= Len(s)
    /\ SubSeq(s, i, i + Len(w) - 1) = w

\* regular expression /^\s*w/i
MatchesLeading(s, w) ==
    LET u == toUpperCase(s)
        rest == trimStart(u)
    IN  OccursAt(rest, toUpperCase(w), 1)

\* regular expression /^\s*(w1|w2|...)/i
MatchesLeadingAny(s, ws) == \E w \in ws : MatchesLeading(s, w)

\* \b holds at the gap before position i of s
BoundaryBefore(s, i) ==
    LET left == i > 1 /\ IsWordChar(Ch(s, i - 1))
        right == i <= Len(s) /\ IsWordChar(Ch(s, i))
    IN  left # right

\* \bw\b matches at position i of a text that is already upper-cased
WordAtUpper(u, uw, i) ==
    /\ OccursAt(u, uw, i)
    /\ BoundaryBefore(u, i)
    /\ BoundaryBefore(u, i + Len(uw))

\* \bw\b matches in s at position i (case-insensitive)
WordAt(s, w, i) == WordAtUpper(toUpperCase(s), toUpperCase(w), i)

\* regular expression /\bw\b/i
HasWord(s, w) ==
    LET u == toUpperCase(s)
        uw == toUpperCase(w)
    IN  \E i \in 1..Len(s) : WordAtUpper(u, uw, i)

\* regular expression /\bWITH\b.*\bAS\b/i ('.' matches no line terminator)
HasWithAs(s) ==
    LET u == toUpperCase(s)
    IN  \E i \in 1..Len(s) :
            /\ WordAtUpper(u, "WITH", i)
            /\ \E j \in (i + 4)..Len(s) :
                  /\ WordAtUpper(u, "AS", j)
                  /\ \A k \in (i + 4)..(j - 1) : Ch(s, k) # "\n"

----------------------------------------------------------------------------
(* Client-side validator: SQLValidator.validate (services/sqlValidator.ts) *)

ToLowerCh(c) ==
    IF \E i \in 1..26 : Ch(Upper, i) = c
    THEN Ch(Lower, CHOOSE i \in 1..26 : Ch(Upper, i) = c)
    ELSE c

RECURSIVE toLowerCase(_)
toLowerCase(s) ==
    IF Len(s) = 0 THEN ""
    ELSE ToLowerCh(Ch(s, 1)) \o toLowerCase(SubSeq(s, 2, Len(s)))

\* String.prototype.includes
includes(s, w) == \E i \in 1..Len(s) : OccursAt(s, w, i)

\* Array.prototype.includes
arrayIncludes(arr, x) == \E i \in 1..Len(arr) : arr[i] = x

\* String.prototype.split on a one-character separator
RECURSIVE split(_, _)
split(s, sep) ==
    IF \E i \in 1..Len(s) : Ch(s, i) = sep
    THEN LET i == CHOOSE k \in 1..Len(s) :
                     Ch(s, k) = sep /\ \A j \in 1..(k - 1) : Ch(s, j) # sep
         IN  <<SubSeq(s, 1, i - 1)>> \o split(SubSeq(s, i + 1, Len(s)), sep)
    ELSE <<s>>

\* sql.match(/\b\w+\b/g) || []: the maximal runs of word characters, in order
RECURSIVE wordTokens(_)
wordTokens(s) ==
    IF Len(s) = 0 THEN <<>>
    ELSE IF ~IsWordChar(Ch(s, 1)) THEN wordTokens(SubSeq(s, 2, Len(s)))
    ELSE LET n == CHOOSE k \in 1..Len(s) :
                     /\ \A j \in 1..k : IsWordChar(Ch(s, j))
                     /\ k < Len(s) => ~IsWordChar(Ch(s, k + 1))
         IN  <<SubSeq(s, 1, n)>> \o wordTokens(SubSeq(s, n + 1, Len(s)))

\* s.replace(/;$/, '')
stripTrailingSemicolon(s) ==
    IF Len(s) > 0 /\ Ch(s, Len(s)) = ";" THEN SubSeq(s, 1, Len(s) - 1) ELSE s

\* regular expression /^\s*(SELECT|WITH)\b/i
isSelectOrCTE(s) ==
    LET rest == trimStart(toUpperCase(s))
    IN  \E w \in {"SELECT", "WITH"} :
            /\ OccursAt(rest, w, 1)
            /\ BoundaryBefore(rest, Len(w) + 1)

\* constants.ts
FORBIDDEN_SQL_KEYWORDS ==
    <<"DROP", "TRUNCATE", "ALTER", "DELETE", "UPDATE", "INSERT", "REPLACE",
      "GRANT", "REVOKE", "CREATE", "RENAME", "EXEC", "EXECUTE", "DATABASE",
      "SCHEMA">>

\* constants.ts: tableName and restrictedRoles of each table
MOCK_DATABASE_SCHEMA ==
    << [tableName |-> "sales_orders", restrictedRoles |-> Undefined],
       [tableName |-> "inventory", restrictedRoles |-> Undefined],
       [tableName |-> "financial_reports",
        restrictedRoles |-> <<"DEVELOPER", "ADMIN">>],
       [tableName |-> "system_logs", restrictedRoles |-> <<"ADMIN">>] >>

\* the keyword loop with patterns that lack the word boundaries
FirstForbiddenKeyword_Substring(sql) ==
    LET hits == {k \in 1..Len(FORBIDDEN_SQL_KEYWORDS) :
                    includes(toUpperCase(sql), FORBIDDEN_SQL_KEYWORDS[k])}
    IN  IF hits = {} THEN ""
        ELSE FORBIDDEN_SQL_KEYWORDS[CHOOSE k \in hits : \A j \in hits : k <= j]

\* the keyword of the first pattern of the loop that matches, "" if none does
FirstForbiddenKeyword(sql) ==
    LET hits == {k \in 1..Len(FORBIDDEN_SQL_KEYWORDS) :
                    HasWord(sql, FORBIDDEN_SQL_KEYWORDS[k])}
    IN  IF hits = {} THEN ""
        ELSE FORBIDDEN_SQL_KEYWORDS[CHOOSE k \in hits : \A j \in hits : k <= j]

\* sql.split(';').filter(p => p.trim().length > 0)
StatementParts(sql) == SelectSeq(split(sql, ";"), LAMBDA p : Len(trim(p)) > 0)

\* schema || MOCK_DATABASE_SCHEMA
ActiveSchema(schema) == IF schema = Undefined THEN MOCK_DATABASE_SCHEMA ELSE schema

\* the table names of the schema that occur among the tokens, in the order
\* of the schema
UsedTables_SchemaOrder(sql, activeSchema) ==
    LET tokens == wordTokens(toLowerCase(sql))
        names == [i \in 1..Len(activeSchema) |-> toLowerCase(activeSchema[i].tableName)]
    IN  SelectSeq(names, LAMBDA name : arrayIncludes(tokens, name))

\* the tokens of the statement that are table names of the schema, in order
UsedTables(sql, activeSchema) ==
    SelectSeq(wordTokens(toLowerCase(sql)),
              LAMBDA token : \E i \in 1..Len(activeSchema) :
                                toLowerCase(activeSchema[i].tableName) = token)

\* the lower-cased names of the tables the role may read
AccessibleTables(activeSchema, role) ==
    {toLowerCase(activeSchema[i].tableName) :
        i \in {k \in 1..Len(activeSchema) :
                  \/ activeSchema[k].restrictedRoles = Undefined
                  \/ arrayIncludes(activeSchema[k].restrictedRoles, role)}}

\* the row-limit wrapper of step 4
Wrap(sanitizedSql) == "SELECT * FROM (" \o sanitizedSql \o ") WHERE ROWNUM <= 1000"

\* the statement texts handed to the validators
GateSqlInputs ==
    {"SELECT * FROM sales_orders",
     "SELECT * FROM t; DROP TABLE t;",
     "SELECT 1; SELECT 2",
     "SELECT 1;",
     "CREATE TABLE x (id INT)",
     "SELECT created_at FROM t",
     "SELECT a FROM t WHERE b = 'Drop'",
     "SELECT name FROM financial_reports",
     "SELECT * FROM System_Logs, financial_reports",
     "select a from t join u",
     "WITH c AS (SELECT 1) SELECT * FROM c",
     "  select * from inventory",
     "SELECT rownumber FROM t",
     "SELECT * FROM t WHERE ROWNUM <= 5",
     "SELECT * FROM t LIMIT 5",
     "SELECTX 1",
     "INSERT INTO t VALUES (1)",
     "UPDATE t SET a = 1",
     "DELETE FROM t",
     "ALTER TABLE t ADD c INT",
     "DROP TABLE t"}

\* the table lists handed to validate: none, an empty one, one of its own
SchemaInputs ==
    {Undefined, <<>>,
     << [tableName |-> "T", restrictedRoles |-> <<"ADMIN">>],
        [tableName |-> "u", restrictedRoles |-> Undefined] >>}

\* the text tests of validate, tabulated per statement text
ClientTests ==
    [sql \in GateSqlInputs |->
        LET upperSql == toUpperCase(sql)
            sanitizedSql == stripTrailingSemicolon(trim(sql))
        IN  [keyword |-> FirstForbiddenKeyword(sql),
             stacked |-> includes(sql, ";") /\ Len(StatementParts(sql)) > 1,
             sanitizedSql |-> sanitizedSql,
             isSelectOrCTE |-> isSelectOrCTE(sanitizedSql),
             limited |-> includes(upperSql, "ROWNUM")
                         \/ includes(upperSql, "FETCH FIRST")]]

\* usedTables of validate, tabulated per statement text and table list
ClientUsedTables ==
    [sql \in GateSqlInputs, schema \in SchemaInputs |->
        UsedTables(sql, ActiveSchema(schema))]

\* SQLValidator.validate without the multi-statement check
validate_NoStackingCheck(sql, role, schema) ==
    LET activeSchema == ActiveSchema(schema)
        t == ClientTests[sql]
        usedTables == UsedTables(sql, activeSchema)
        accessibleTables == AccessibleTables(activeSchema, role)
        denied == {i \in 1..Len(usedTables) : usedTables[i] \notin accessibleTables}
    IN  IF role # "ADMIN" /\ t.keyword # ""
        THEN [isValid |-> FALSE,
              error |-> "Security Violation: Forbidden keyword '" \o t.keyword
                        \o "' detected."]
        ELSE IF Len(activeSchema) > 0 /\ denied # {}
        THEN [isValid |-> FALSE,
              error |-> "Access Denied: You do not have permission to query table '"
                        \o usedTables[CHOOSE i \in denied : \A j \in denied : i <= j]
                        \o "'."]
        ELSE [isValid |-> TRUE,
              sanitizedSql |-> IF t.isSelectOrCTE /\ ~t.limited
                               THEN Wrap(t.sanitizedSql) ELSE t.sanitizedSql]

\* accessibleTables of validate, tabulated per table list and role
ClientAccessibleTables ==
    [schema \in SchemaInputs, role \in {"ADMIN", "DEVELOPER", "ANALYST"} |->
        AccessibleTables(ActiveSchema(schema), role)]

\* SQLValidator.validate(sql, role, schema)
validate(sql, role, schema) ==
    LET activeSchema == ActiveSchema(schema)
        t == ClientTests[sql]
        usedTables == ClientUsedTables[sql, schema]
        accessibleTables == ClientAccessibleTables[schema, role]
        denied == {i \in 1..Len(usedTables) : usedTables[i] \notin accessibleTables}
    IN  IF role # "ADMIN" /\ t.keyword # ""
        THEN [isValid |-> FALSE,
              error |-> "Security Violation: Forbidden keyword '" \o t.keyword
                        \o "' detected."]
        ELSE IF t.stacked
        THEN [isValid |-> FALSE,
              error |-> "Security Violation: Multiple SQL statements detected."]
        ELSE IF Len(activeSchema) > 0 /\ denied # {}
        THEN [isValid |-> FALSE,
              error |-> "Access Denied: You do not have permission to query table '"
                        \o usedTables[CHOOSE i \in denied : \A j \in denied : i <= j]
                        \o "'."]
        ELSE [isValid |-> TRUE,
              sanitizedSql |-> IF t.isSelectOrCTE /\ ~t.limited
                               THEN Wrap(t.sanitizedSql) ELSE t.sanitizedSql]

----------------------------------------------------------------------------
(* Policy store: role_permissions and its readers (rbac.js) *)

Roles == {"ADMIN", "DEVELOPER", "ANALYST"}

validRoles == {"ADMIN", "DEVELOPER", "ANALYST"}

validOps == {"SELECT", "INSERT", "UPDATE", "DELETE", "JOIN", "CTE"}

NoRow == [none |-> TRUE]

\* schema.sql: the default role permissions inserted at start-up
DefaultPermissions ==
    [ro \in validRoles \X validOps |->
        CASE ro[1] = "ADMIN" -> [is_allowed |-> 1, max_rows |-> 100000]
          [] ro[1] = "DEVELOPER" /\ ro[2] \in {"SELECT", "JOIN", "CTE"} ->
                [is_allowed |-> 1, max_rows |-> 10000]
          [] ro[1] = "ANALYST" /\ ro[2] = "SELECT" ->
                [is_allowed |-> 1, max_rows |-> 1000]
          [] OTHER -> [is_allowed |-> 0, max_rows |-> 0]]

\* permissionQueries.isOperationAllowed.get(role, operation)
isOperationAllowed(table, role, operation) ==
    IF <<role, operation>> \in DOMAIN table THEN table[<<role, operation>>] ELSE NoRow

\* a bound parameter stored in an INTEGER column: a number is kept, a
\* decimal text takes the column's affinity
SqliteStore(v) == IF v[1] = "string" THEN DecimalValue(v[2]) ELSE v[2]

\* permissionQueries.update.run(is_allowed ? 1 : 0, max_rows || 1000, role,
\* operation): UPDATE ... WHERE role = ? AND operation = ?
permissionUpdate(table, is_allowed, max_rows, role, operation) ==
    IF <<role, operation>> \in DOMAIN table
    THEN [table EXCEPT ![<<role, operation>>] =
            [is_allowed |-> IF Truthy(is_allowed) THEN 1 ELSE 0,
             max_rows |-> IF Truthy(max_rows) THEN SqliteStore(max_rows)
                          ELSE 1000]]
    ELSE table

\* contents of role_permissions that PUT /api/admin/permissions produces
\* from the defaults: every permission switched on; ANALYST's SELECT
\* switched off; ANALYST's SELECT capped at 2 rows; DEVELOPER's CTE switched
\* off; DEVELOPER's SELECT with max_rows "0" and with max_rows -1
PermissionTables ==
    {DefaultPermissions,
     [ro \in validRoles \X validOps |-> [is_allowed |-> 1, max_rows |-> 1000]],
     permissionUpdate(DefaultPermissions, Bool(FALSE), Undefined, "ANALYST", "SELECT"),
     permissionUpdate(DefaultPermissions, Bool(TRUE), Num(2), "ANALYST", "SELECT"),
     permissionUpdate(DefaultPermissions, Bool(FALSE), Undefined, "DEVELOPER", "CTE"),
     permissionUpdate(DefaultPermissions, Bool(TRUE), Str("0"), "DEVELOPER", "SELECT"),
     permissionUpdate(DefaultPermissions, Num(1), Num(-1), "DEVELOPER", "SELECT")}

\* checkOperationPermission without the hardcoded DDL rule
checkOperationPermission_NoDdlRule(table, role, operation) ==
    IF operation = "UNKNOWN" THEN [allowed |-> FALSE, maxRows |-> 0]
    ELSE LET permission == isOperationAllowed(table, role, toUpperCase(operation))
         IN  IF permission = NoRow THEN [allowed |-> FALSE, maxRows |-> 0]
             ELSE [allowed |-> permission.is_allowed = 1,
                   maxRows |-> permission.max_rows]

\* checkOperationPermission that treats an absent row as allowed
checkOperationPermission_FailOpen(table, role, operation) ==
    IF operation = "DDL" THEN [allowed |-> role = "ADMIN", maxRows |-> 0]
    ELSE IF operation = "UNKNOWN" THEN [allowed |-> FALSE, maxRows |-> 0]
    ELSE LET permission == isOperationAllowed(table, role, toUpperCase(operation))
         IN  IF permission = NoRow THEN [allowed |-> TRUE, maxRows |-> 0]
             ELSE [allowed |-> permission.is_allowed = 1,
                   maxRows |-> permission.max_rows]

checkOperationPermission(table, role, operation) ==
    IF operation = "DDL" THEN [allowed |-> role = "ADMIN", maxRows |-> 0]
    ELSE IF operation = "UNKNOWN" THEN [allowed |-> FALSE, maxRows |-> 0]
    ELSE LET permission == isOperationAllowed(table, role, toUpperCase(operation))
         IN  IF permission = NoRow THEN [allowed |-> FALSE, maxRows |-> 0]
             ELSE [allowed |-> permission.is_allowed = 1,
                   maxRows |-> permission.max_rows]

\* the operations of a role's rows in rowid order (schema.sql inserts them in
\* this order for every role)
OperationOrder == <<"SELECT", "INSERT", "UPDATE", "DELETE", "JOIN", "CTE">>

\* permissionQueries.getByRole.all(role)
getByRole(table, role) ==
    LET present == SelectSeq(OperationOrder,
                             LAMBDA o : <<role, o>> \in DOMAIN table)
    IN  [i \in 1..Len(present) |->
            [operation |-> present[i],
             is_allowed |-> table[<<role, present[i]>>].is_allowed,
             max_rows |-> table[<<role, present[i]>>].max_rows]]

\* Math.max(a, b)
MathMax(a, b) == IF a >= b THEN a ELSE b

\* the loop of getRolePermissions over the first n rows
RECURSIVE RolePermissionsLoop(_, _)
RolePermissionsLoop(permissions, n) ==
    IF n = 0 THEN [allowedOperations |-> <<>>, maxRows |-> 1000]
    ELSE LET result == RolePermissionsLoop(permissions, n - 1)
             perm == permissions[n]
         IN  IF perm.is_allowed # 0
             THEN [allowedOperations |->
                       Append(result.allowedOperations, perm.operation),
                   maxRows |-> MathMax(result.maxRows, perm.max_rows)]
             ELSE result

\* getRolePermissions(role)
getRolePermissions(table, role) ==
    LET permissions == getByRole(table, role)
    IN  RolePermissionsLoop(permissions, Len(permissions))

\* the operation detection with the DDL keywords falling under the SELECT
\* pattern
DetectOperation_DdlAsSelect(upperSql) ==
    IF MatchesLeading(upperSql, "SELECT") \/ MatchesLeading(upperSql, "WITH")
       \/ MatchesLeadingAny(upperSql,
              {"CREATE", "DROP", "ALTER", "TRUNCATE", "GRANT", "REVOKE", "RENAME"})
        THEN "SELECT"
    ELSE IF MatchesLeadingAny(upperSql, {"INSERT", "INTO"}) THEN "INSERT"
    ELSE IF MatchesLeading(upperSql, "UPDATE") THEN "UPDATE"
    ELSE IF MatchesLeading(upperSql, "DELETE") THEN "DELETE"
    ELSE "UNKNOWN"

\* the statement's operation, from the first matching pattern
DetectOperation(upperSql) ==
    IF MatchesLeading(upperSql, "SELECT") \/ MatchesLeading(upperSql, "WITH")
        THEN "SELECT"
    ELSE IF MatchesLeadingAny(upperSql, {"INSERT", "INTO"}) THEN "INSERT"
    ELSE IF MatchesLeading(upperSql, "UPDATE") THEN "UPDATE"
    ELSE IF MatchesLeading(upperSql, "DELETE") THEN "DELETE"
    ELSE IF MatchesLeadingAny(upperSql,
              {"CREATE", "DROP", "ALTER", "TRUNCATE", "GRANT", "REVOKE", "RENAME"})
        THEN "DDL"
    ELSE "UNKNOWN"

\* the statement texts the requests of the model carry
SqlInputs == {"", "  ", "SELECT 1", "DROP TABLE t", "select a from t join u"}

\* the statement texts that reach the server: those posted as they are and
\* those the client has sanitized
ServerSqlInputs ==
    SqlInputs \cup GateSqlInputs
    \cup {ClientTests[q].sanitizedSql : q \in GateSqlInputs}
    \cup {Wrap(ClientTests[q].sanitizedSql) : q \in GateSqlInputs}

\* the regular-expression tests validateSqlPermissions applies to
\* upperSql = sql.toUpperCase().trim(), tabulated per statement text
SqlTests ==
    [sql \in ServerSqlInputs |->
        LET upperSql == trim(toUpperCase(sql))
        IN  [operation |-> DetectOperation(upperSql),
             join |-> HasWord(upperSql, "JOIN"),
             withAs |-> HasWithAs(upperSql),
             blank |-> trim(sql) = ""]]

\* validateSqlPermissions with operation patterns that keep their position
\* between calls: after a match, the same text no longer matches on the
\* next call
validateSqlPermissions_StickyPatterns(table, sql, role) ==
    LET operation == IF gate.fn = "validateSqlPermissions" /\ gate.sql = sql
                        /\ gate.out.valid
                     THEN "UNKNOWN" ELSE SqlTests[sql].operation
        opPermission == checkOperationPermission(table, role, operation)
    IN  IF ~opPermission.allowed
        THEN [valid |-> FALSE,
              error |-> "You do not have permission to run " \o operation
                        \o " queries",
              maxRows |-> 0]
        ELSE IF SqlTests[sql].join
                /\ ~checkOperationPermission(table, role, "JOIN").allowed
        THEN [valid |-> FALSE,
              error |-> "You do not have permission to use JOIN operations",
              maxRows |-> 0]
        ELSE IF SqlTests[sql].withAs
                /\ ~checkOperationPermission(table, role, "CTE").allowed
        THEN [valid |-> FALSE,
              error |-> "You do not have permission to use Common Table Expressions (CTE)",
              maxRows |-> 0]
        ELSE [valid |-> TRUE, maxRows |-> opPermission.maxRows]

\* validateSqlPermissions without the checks for JOIN and CTE
validateSqlPermissions_NoModifiers(table, sql, role) ==
    LET operation == SqlTests[sql].operation
        opPermission == checkOperationPermission(table, role, operation)
    IN  IF ~opPermission.allowed
        THEN [valid |-> FALSE,
              error |-> "You do not have permission to run " \o operation
                        \o " queries",
              maxRows |-> 0]
        ELSE [valid |-> TRUE, maxRows |-> opPermission.maxRows]

\* validateSqlPermissions(sql, role) over the given role_permissions
validateSqlPermissions(table, sql, role) ==
    LET operation == SqlTests[sql].operation
        opPermission == checkOperationPermission(table, role, operation)
    IN  IF ~opPermission.allowed
        THEN [valid |-> FALSE,
              error |-> "You do not have permission to run " \o operation
                        \o " queries",
              maxRows |-> 0]
        ELSE IF SqlTests[sql].join
                /\ ~checkOperationPermission(table, role, "JOIN").allowed
        THEN [valid |-> FALSE,
              error |-> "You do not have permission to use JOIN operations",
              maxRows |-> 0]
        ELSE IF SqlTests[sql].withAs
                /\ ~checkOperationPermission(table, role, "CTE").allowed
        THEN [valid |-> FALSE,
              error |-> "You do not have permission to use Common Table Expressions (CTE)",
              maxRows |-> 0]
        ELSE [valid |-> TRUE, maxRows |-> opPermission.maxRows]

\* the gatekeeper asking validateSqlPermissions before the client-side steps
handleRunQuery_PermissionFirst(table, sql, role, schema) ==
    LET permissionCheck == validateSqlPermissions(table, sql, role)
        validation == validate(sql, role, schema)
    IN  IF ~permissionCheck.valid
        THEN [valid |-> FALSE, error |-> permissionCheck.error]
        ELSE IF ~validation.isValid
        THEN [valid |-> FALSE, error |-> validation.error]
        ELSE [valid |-> TRUE, sanitized_sql |-> validation.sanitizedSql,
              max_rows |-> permissionCheck.maxRows]

\* the gatekeeper reporting the cap of the client's wrapper instead of the
\* cap of the permission lookup
handleRunQuery_WrapperCap(table, sql, role, schema) ==
    LET validation == validate(sql, role, schema)
    IN  IF ~validation.isValid
        THEN [valid |-> FALSE, error |-> validation.error]
        ELSE LET finalSql == validation.sanitizedSql
                 permissionCheck == validateSqlPermissions(table, finalSql, role)
             IN  IF ~permissionCheck.valid
                 THEN [valid |-> FALSE, error |-> permissionCheck.error]
                 ELSE [valid |-> TRUE, sanitized_sql |-> finalSql,
                       max_rows |-> 1000]

\* what handleRunQuery (App.tsx) and the execute route make of a generated
\* statement for a caller who holds a grant: the client-side validation, then
\* validateSqlPermissions on the sanitized text the client posts
handleRunQuery(table, sql, role, schema) ==
    LET validation == validate(sql, role, schema)
    IN  IF ~validation.isValid
        THEN [valid |-> FALSE, error |-> validation.error]
        ELSE LET finalSql == validation.sanitizedSql
                 permissionCheck == validateSqlPermissions(table, finalSql, role)
             IN  IF ~permissionCheck.valid
                 THEN [valid |-> FALSE, error |-> permissionCheck.error]
                 ELSE [valid |-> TRUE, sanitized_sql |-> finalSql,
                       max_rows |-> permissionCheck.maxRows]

\* Array.prototype.slice(0, end) of an array of n elements: its length
sliceLength(n, end) ==
    IF end < 0 THEN (IF n + end > 0 THEN n + end ELSE 0)
    ELSE IF end < n THEN end ELSE n

\* what executeQuery returns for a statement the engine answers with n rows
\* (kind "rows"), with a result header and no row set (kind "header": DDL
\* and DML) or with an error.  ORACLE fetches under the option maxRows, for
\* which 0 means no limit and a negative number is rejected; MYSQL and
\* POSTGRESQL slice the fetched array, and the MYSQL result header is no
\* array.
executeQueryResult(type, maxRows, kind, n) ==
    IF kind = "error" THEN [ok |-> FALSE]
    ELSE CASE type = "ORACLE" ->
                IF maxRows < 0 THEN [ok |-> FALSE]
                ELSE LET fetched == IF kind = "header" THEN 0
                                    ELSE IF maxRows = 0 \/ n < maxRows THEN n
                                    ELSE maxRows
                     IN  [ok |-> TRUE, rows |-> fetched, rowCount |-> fetched]
           [] type = "MYSQL" ->
                IF kind = "header" THEN [ok |-> FALSE]
                ELSE [ok |-> TRUE, rows |-> sliceLength(n, maxRows),
                      rowCount |-> sliceLength(n, maxRows)]
           [] type = "POSTGRESQL" ->
                LET have == IF kind = "header" THEN 0 ELSE n
                IN  [ok |-> TRUE, rows |-> sliceLength(have, maxRows),
                     rowCount |-> sliceLength(have, maxRows)]

\* hasDbAccess(userId, connectionId)
hasDbAccess(access, userId, connectionId) ==
    <<userId, SqliteInteger(connectionId)>> \in access

\* accessQueries.getUserDatabases.all(userId): the ids of the rows of
\* db_connections JOIN user_db_access with is_active = 1
getUserDatabases(connections, access, userId) ==
    {dc \in DOMAIN connections :
        /\ \E uda \in access : uda[2] = dc /\ uda[1] = userId
        /\ connections[dc].is_active = 1}

----------------------------------------------------------------------------
(* Meta database rows (schema.sql) *)

EngineTypes == {"ORACLE", "MYSQL", "POSTGRESQL"}

\* connectionQueries.findById.get(connectionId)
findConnectionById(connectionId) ==
    LET id == SqliteInteger(connectionId)
    IN  IF id \in DOMAIN db_connections THEN db_connections[id] ELSE NoRow

\* query_logs.db_connection_id REFERENCES db_connections(id), with
\* PRAGMA foreign_keys = ON: the insert throws unless the row exists.
LogInsertAccepted(connectionId) ==
    SqliteInteger(connectionId) \in DOMAIN db_connections

LogRow(userId, connectionId, status) ==
    [user_id |-> userId, db_connection_id |-> SqliteInteger(connectionId),
     status |-> status]

----------------------------------------------------------------------------
(* The pools Map of connectionPool.js: entries in insertion order *)

PoolsHas(key) == \E i \in 1..Len(pools) : pools[i].key = key

PoolsGet(key) == pools[CHOOSE i \in 1..Len(pools) : pools[i].key = key].pool

\* Map.prototype.set: an existing key keeps its position
PoolsSet(key, p) ==
    IF PoolsHas(key)
    THEN [i \in 1..Len(pools) |->
            IF pools[i].key = key THEN [key |-> key, pool |-> p] ELSE pools[i]]
    ELSE Append(pools, [key |-> key, pool |-> p])

\* Map.prototype.clear in the place of delete
PoolsDelete_Clear(reg, key) == <<>>

\* Map.prototype.delete
PoolsDelete(reg, key) == SelectSeq(reg, LAMBDA e : e.key # key)

\* a pool returned by createPool(connection): { type, pool }
NewPool(connConfig, id) ==
    [conn |-> id, cfg |-> connConfig.cfg, type |-> connConfig.db_type,
     state |-> "open"]

----------------------------------------------------------------------------
(* Task slots *)

IdleTask ==
    [pc |-> "idle", op |-> "none", user |-> 0, connectionId |-> Undefined,
     sql |-> "", connConfig |-> NoRow, newPool |-> 0, poolInfo |-> 0,
     issuedOpen |-> FALSE, acquired |-> 0, released |-> 0,
     result |-> "none", maxRows |-> 0, logged |-> <<>>, trace |-> <<>>,
     res |-> 0, role |-> "", granted |-> FALSE, quiet |-> FALSE]

\* the handler has answered: its locals are gone, what it did is kept
Finish(tk, status) ==
    [tk EXCEPT !.pc = "done", !.res = status, !.connConfig = NoRow,
               !.newPool = 0, !.poolInfo = 0, !.issuedOpen = FALSE,
               !.quiet = FALSE]

Free(t) == tasks[t].pc \in {"idle", "done"}

\* a closePool call is between starting the engine close and pools.delete
Closing == \E t \in Tasks : tasks[t].pc \in {"cp_closing", "ca_closing"}

\* getConnection calls that have passed the pools.has check and whose pool
\* is not constructed yet
Creators == {t \in Tasks : tasks[t].pc \in {"gc_driver", "gc_construct"}}

\* the model stops admitting requests that would construct a pool for a
\* connection beyond MaxPools pools of that connection
RoomForPool(id) ==
    Cardinality({p \in 1..Len(poolObjs) : poolObjs[p].conn = id})
      + Cardinality({t \in Creators : SqliteInteger(tasks[t].connectionId) = id})
    < MaxPools

WouldCreate(connectionId) ==
    LET connConfig == findConnectionById(connectionId)
    IN  /\ connConfig # NoRow
        /\ connConfig.is_active # 0
        /\ ~PoolsHas(connectionId)

Admit(connectionId) ==
    /\ ~exited
    /\ WouldCreate(connectionId) => RoomForPool(SqliteInteger(connectionId))

\* execute requests in flight, each of which may still write its log row
Executing == {t \in Tasks : tasks[t].op = "execute" /\ tasks[t].pc \notin {"idle", "done"}}

\* the model stops admitting execute requests once MaxLog rows are written
\* or owed
LogRoom == BagCardinality(query_logs) + Cardinality(Executing) < MaxLog

----------------------------------------------------------------------------
(* Initial state: the meta database after schema.sql has run and one       *)
(* connection has been registered by the administrator; no pool exists.    *)

THROWN == 599

\* no gatekeeper call has been made
IdleGate ==
    [fn |-> "none", sql |-> "", role |-> "", schema |-> Undefined,
     out |-> NoRow, prev |-> NoRow]

Init ==
    /\ users = (1 :> [role |-> "ADMIN", is_active |-> 1]
                @@ 2 :> [role |-> "DEVELOPER", is_active |-> 1])
    /\ db_connections = (1 :> [db_type |-> "ORACLE", cfg |-> 1, is_active |-> 1])
    /\ user_db_access = {<<1, 1>>}
    /\ role_permissions = DefaultPermissions
    /\ query_logs = EmptyBag
    /\ pools = <<>>
    /\ poolObjs = <<>>
    /\ driverOk \in {EngineTypes, EngineTypes \ {"ORACLE"}}
    /\ tasks = [t \in Tasks |-> IdleTask]
    /\ exited = FALSE
    /\ permRes = [status |-> 0, role |-> "", operation |-> ""]
    /\ gate = IdleGate

metaUnchanged == UNCHANGED <<users, db_connections, user_db_access, role_permissions>>

----------------------------------------------------------------------------
(* connectionPool.js *)

\* getConnection up to its first await: config lookup, pools.has, and either
\* the start of createPool (await getDriver) or the borrow from the
\* registered pool.
getConnection(tk, connectionId) ==
    LET connConfig == findConnectionById(connectionId)
        called == [tk EXCEPT !.connConfig = connConfig, !.quiet = ~Closing]
    IN  IF connConfig = NoRow \/ connConfig.is_active = 0
        THEN [called EXCEPT !.pc = "settle", !.result = "error"]
        ELSE IF ~PoolsHas(connectionId)
        THEN [called EXCEPT !.pc = "gc_driver"]
        ELSE LET p == PoolsGet(connectionId)
             IN  [called EXCEPT !.pc = "gc_borrow", !.poolInfo = p,
                                !.issuedOpen = (poolObjs[p].state = "open")]

\* createPool with one driver table for all engines: a missing driver of any
\* type fails every construction
GetDriverDone_AllOrNothing(t) ==
    /\ ~exited
    /\ tasks[t].pc = "gc_driver"
    /\ LET tk == tasks[t]
           ty == tk.connConfig.db_type
       IN  \/ /\ tasks' = [tasks EXCEPT ![t] = [tk EXCEPT !.pc = "settle",
                                                          !.result = "error"]]
              /\ UNCHANGED poolObjs
           \/ IF driverOk # EngineTypes
              THEN /\ tasks' = [tasks EXCEPT ![t] = [tk EXCEPT !.pc = "settle",
                                                               !.result = "error"]]
                   /\ UNCHANGED poolObjs
              ELSE IF ty = "ORACLE"
              THEN /\ tasks' = [tasks EXCEPT ![t] = [tk EXCEPT !.pc = "gc_construct"]]
                   /\ UNCHANGED poolObjs
              ELSE /\ poolObjs' = Append(poolObjs,
                                     NewPool(tk.connConfig, SqliteInteger(tk.connectionId)))
                   /\ tasks' = [tasks EXCEPT ![t] = [tk EXCEPT !.pc = "gc_created",
                                                     !.newPool = Len(poolObjs) + 1]]
    /\ metaUnchanged
    /\ UNCHANGED <<query_logs, pools, driverOk, exited, permRes, gate>>

\* createPool after `await getDriver(type)`: decrypt had thrown before the
\* await (the stored credential does not decrypt under the process key), the
\* import failed, or the driver constructs the pool (oracledb.createPool is
\* itself awaited).
GetDriverDone(t) ==
    /\ ~exited
    /\ tasks[t].pc = "gc_driver"
    /\ LET tk == tasks[t]
           ty == tk.connConfig.db_type
       IN  \/ /\ tasks' = [tasks EXCEPT ![t] = [tk EXCEPT !.pc = "settle",
                                                          !.result = "error"]]
              /\ UNCHANGED poolObjs
           \/ IF ty \notin driverOk
              THEN /\ tasks' = [tasks EXCEPT ![t] = [tk EXCEPT !.pc = "settle",
                                                               !.result = "error"]]
                   /\ UNCHANGED poolObjs
              ELSE IF ty = "ORACLE"
              THEN /\ tasks' = [tasks EXCEPT ![t] = [tk EXCEPT !.pc = "gc_construct"]]
                   /\ UNCHANGED poolObjs
              ELSE /\ poolObjs' = Append(poolObjs,
                                     NewPool(tk.connConfig, SqliteInteger(tk.connectionId)))
                   /\ tasks' = [tasks EXCEPT ![t] = [tk EXCEPT !.pc = "gc_created",
                                                     !.newPool = Len(poolObjs) + 1]]
    /\ metaUnchanged
    /\ UNCHANGED <<query_logs, pools, driverOk, exited, permRes, gate>>

\* createPool that registers the pool before the driver has constructed it
OracleCreateDone_RegistersFirst(t) ==
    /\ ~exited
    /\ tasks[t].pc = "gc_construct"
    /\ LET tk == tasks[t]
       IN  \/ /\ poolObjs' = Append(poolObjs,
                                NewPool(tk.connConfig, SqliteInteger(tk.connectionId)))
              /\ tasks' = [tasks EXCEPT ![t] = [tk EXCEPT !.pc = "gc_created",
                                                !.newPool = Len(poolObjs) + 1]]
              /\ UNCHANGED pools
           \/ /\ tasks' = [tasks EXCEPT ![t] = [tk EXCEPT !.pc = "settle",
                                                          !.result = "error"]]
              /\ poolObjs' = Append(poolObjs,
                                [NewPool(tk.connConfig, SqliteInteger(tk.connectionId))
                                    EXCEPT !.state = "closed"])
              /\ pools' = PoolsSet(tk.connectionId, Len(poolObjs) + 1)
    /\ metaUnchanged
    /\ UNCHANGED <<query_logs, driverOk, exited, permRes, gate>>

\* `await oracledb.createPool(...)` settles: the pool exists, or the target
\* host refused.
OracleCreateDone(t) ==
    /\ ~exited
    /\ tasks[t].pc = "gc_construct"
    /\ LET tk == tasks[t]
       IN  \/ /\ poolObjs' = Append(poolObjs,
                                NewPool(tk.connConfig, SqliteInteger(tk.connectionId)))
              /\ tasks' = [tasks EXCEPT ![t] = [tk EXCEPT !.pc = "gc_created",
                                                !.newPool = Len(poolObjs) + 1]]
           \/ /\ tasks' = [tasks EXCEPT ![t] = [tk EXCEPT !.pc = "settle",
                                                          !.result = "error"]]
              /\ UNCHANGED poolObjs
    /\ metaUnchanged
    /\ UNCHANGED <<query_logs, pools, driverOk, exited, permRes, gate>>

\* getConnection after `await createPool(connConfig)`: pools.set, pools.get
\* and the borrow from the pool just read.
RegisterPool(t) ==
    /\ ~exited
    /\ tasks[t].pc = "gc_created"
    /\ LET tk == tasks[t]
           reg == PoolsSet(tk.connectionId, tk.newPool)
       IN  /\ pools' = reg
           /\ tasks' = [tasks EXCEPT ![t] =
                  [tk EXCEPT !.pc = "gc_borrow", !.poolInfo = tk.newPool,
                             !.issuedOpen = (poolObjs[tk.newPool].state = "open")]]
    /\ metaUnchanged
    /\ UNCHANGED <<query_logs, poolObjs, driverOk, exited, permRes, gate>>

\* executeQuery / getSchema once a connection has been borrowed: the
\* statement is sent inside try { } finally { await release() }.  An ORACLE
\* handle first awaits getDriver('ORACLE'), which throws inside the try.
AfterAcquire(tk) ==
    IF poolObjs[tk.poolInfo].type = "ORACLE" /\ "ORACLE" \notin driverOk
    THEN [tk EXCEPT !.pc = "settle", !.acquired = 1, !.released = @ + 1,
                    !.result = "error"]
    ELSE IF poolObjs[tk.poolInfo].type \notin EngineTypes
    THEN [tk EXCEPT !.pc = "settle", !.acquired = 1, !.released = @ + 1,
                    !.result = "error"]
    ELSE [tk EXCEPT !.pc = "eq_run", !.acquired = 1]

\* the borrow (pool.getConnection / pool.connect) settles.  A pool that was
\* already closing when asked rejects; otherwise the driver hands out a
\* connection or fails (time-out, network).
BorrowDone(t) ==
    /\ ~exited
    /\ tasks[t].pc = "gc_borrow"
    /\ LET tk == tasks[t]
       IN  \/ /\ tk.issuedOpen
              /\ tasks' = [tasks EXCEPT ![t] = AfterAcquire(tk)]
           \/ /\ tasks' = [tasks EXCEPT ![t] = [tk EXCEPT !.pc = "settle",
                                                          !.result = "error"]]
    /\ metaUnchanged
    /\ UNCHANGED <<query_logs, pools, poolObjs, driverOk, exited, permRes, gate>>

\* executeQuery without the finally block: release only after a result
QueryDone_NoFinally(t) ==
    /\ ~exited
    /\ tasks[t].pc = "eq_run"
    /\ \E outcome \in {"ok", "error"} :
          tasks' = [tasks EXCEPT ![t] =
              [tasks[t] EXCEPT !.pc = "settle", !.result = outcome,
                               !.released = IF outcome = "ok" THEN @ + 1 ELSE @]]
    /\ metaUnchanged
    /\ UNCHANGED <<query_logs, pools, poolObjs, driverOk, exited, permRes, gate>>

\* the statement settles (rows or a backend error); finally: await release()
QueryDone(t) ==
    /\ ~exited
    /\ tasks[t].pc = "eq_run"
    /\ \E outcome \in {"ok", "error"} :
          tasks' = [tasks EXCEPT ![t] =
              [tasks[t] EXCEPT !.pc = "settle", !.result = outcome,
                               !.released = @ + 1]]
    /\ metaUnchanged
    /\ UNCHANGED <<query_logs, pools, poolObjs, driverOk, exited, permRes, gate>>

\* closePool up to its await: nothing for an unregistered key, otherwise the
\* engine close (pool.close(0) / pool.end()) is started on the stored pool.
ClosePoolBegin(objs, key) ==
    IF PoolsHas(key)
    THEN [objs EXCEPT ![PoolsGet(key)].state = "closing"]
    ELSE objs

\* closePool after the await: the engine close has settled;
\* pools.delete(connectionId).
ClosePoolEnd(objs, p) == [objs EXCEPT ![p].state = "closed"]

\* closePool after the await when the engine close threw: the throw is caught
\* and logged, the pool is left as the failed close left it
ClosePoolThrew(objs, p) == objs

\* the pools after the engine close has settled one way or the other
ClosePoolSettled(objs, p) == {ClosePoolEnd(objs, p), ClosePoolThrew(objs, p)}

----------------------------------------------------------------------------
(* routes/query.js *)

\* the handler's decisions up to the call of executeQuery, as the ordered
\* list of what it did, but calling executeQuery whatever the validation said
ExecuteSteps_NoValidationGate(role, access, valid) ==
    IF role # "ADMIN" /\ ~access
    THEN <<"access_denied", "log_blocked">>
    ELSE <<"access_ok">> \o
         (IF valid THEN <<"validate_ok", "executeQuery">>
                   ELSE <<"validate_invalid", "executeQuery">>)

\* POST /execute from the access check to the call of executeQuery, as the
\* ordered list of what the handler did
ExecuteSteps(role, access, valid) ==
    IF role # "ADMIN" /\ ~access
    THEN <<"access_denied", "log_blocked">>
    ELSE <<"access_ok">> \o
         (IF valid THEN <<"validate_ok", "executeQuery">>
                   ELSE <<"validate_invalid", "log_blocked">>)

Last(seq) == seq[Len(seq)]

\* POST /api/query/execute, up to its first await
ExecuteRequest(t, userId, connectionId, sql) ==
    /\ Free(t)
    /\ Admit(connectionId)
    /\ LogRoom
    /\ users[userId].is_active # 0
    /\ LET role == users[userId].role
           tk == [IdleTask EXCEPT !.op = "execute", !.user = userId,
                                  !.connectionId = connectionId, !.sql = sql,
                                  !.role = role,
                                  !.granted = hasDbAccess(user_db_access, userId,
                                                          connectionId)]
           permissionCheck == validateSqlPermissions(role_permissions, sql, role)
           steps == ExecuteSteps(role,
                                 hasDbAccess(user_db_access, userId, connectionId),
                                 permissionCheck.valid)
       IN  IF ~Truthy(connectionId) \/ sql = "" \/ SqlTests[sql].blank
           THEN /\ tasks' = [tasks EXCEPT ![t] = Finish(tk, 400)]
                /\ UNCHANGED query_logs
           ELSE IF Last(steps) = "log_blocked"
           THEN IF LogInsertAccepted(connectionId)
                THEN /\ query_logs' = query_logs (+) SetToBag({LogRow(userId, connectionId, "BLOCKED")})
                     /\ tasks' = [tasks EXCEPT ![t] =
                            Finish([tk EXCEPT !.trace = steps,
                                              !.logged = <<"BLOCKED">>], 403)]
                ELSE /\ UNCHANGED query_logs
                     /\ tasks' = [tasks EXCEPT ![t] =
                            Finish([tk EXCEPT !.trace = steps], THROWN)]
           ELSE /\ UNCHANGED query_logs
                /\ tasks' = [tasks EXCEPT ![t] =
                       getConnection([tk EXCEPT !.trace = steps,
                                                !.maxRows = permissionCheck.maxRows],
                                     connectionId)]
    /\ metaUnchanged
    /\ UNCHANGED <<pools, poolObjs, driverOk, exited, permRes, gate>>

\* GET /api/query/schema/:connectionId, up to its first await
SchemaRequest(t, userId, param) ==
    LET connectionId == Num(parseInt(Str(param)))
        tk == [IdleTask EXCEPT !.op = "schema", !.user = userId,
                               !.connectionId = connectionId]
    IN  /\ Free(t)
        /\ Admit(connectionId)
        /\ users[userId].is_active # 0
            /\ IF users[userId].role # "ADMIN"
              /\ ~hasDbAccess(user_db_access, userId, connectionId)
           THEN tasks' = [tasks EXCEPT ![t] = Finish(tk, 403)]
           ELSE tasks' = [tasks EXCEPT ![t] = getConnection(tk, connectionId)]
        /\ metaUnchanged
        /\ UNCHANGED <<query_logs, pools, poolObjs, driverOk, exited, permRes, gate>>

\* the route continues after `await executeQuery(...)` / `await getSchema(...)`
Settle(t) ==
    /\ ~exited
    /\ tasks[t].pc = "settle"
    /\ LET tk == tasks[t]
           status == IF tk.result = "ok" THEN "SUCCESS" ELSE "FAILED"
       IN  IF tk.op = "schema"
           THEN /\ tasks' = [tasks EXCEPT ![t] =
                       Finish(tk, IF tk.result = "ok" THEN 200 ELSE 500)]
                /\ UNCHANGED query_logs
           ELSE IF LogInsertAccepted(tk.connectionId)
           THEN /\ query_logs' = query_logs (+) SetToBag({LogRow(tk.user, tk.connectionId, status)})
                /\ tasks' = [tasks EXCEPT ![t] =
                       Finish([tk EXCEPT !.logged = Append(@, status)],
                              IF tk.result = "ok" THEN 200 ELSE 500)]
           ELSE /\ UNCHANGED query_logs
                /\ tasks' = [tasks EXCEPT ![t] = Finish(tk, THROWN)]
    /\ metaUnchanged
    /\ UNCHANGED <<pools, poolObjs, driverOk, exited, permRes, gate>>

----------------------------------------------------------------------------
(* routes/connections.js *)

\* PUT /api/connections/:id, up to `await closePool(connectionId)`
UpdateConnection(t, userId, param, changed, db_type, is_active) ==
    LET connectionId == parseInt(Str(param))
        tk == [IdleTask EXCEPT !.op = "update", !.user = userId,
                               !.connectionId = Num(connectionId)]
    IN  /\ Free(t)
        /\ ~exited
        /\ users[userId].is_active # 0
        /\ users[userId].role = "ADMIN"
            /\ IF connectionId \notin DOMAIN db_connections
           THEN /\ tasks' = [tasks EXCEPT ![t] = Finish(tk, 404)]
                /\ UNCHANGED <<db_connections, poolObjs>>
           ELSE LET connection == db_connections[connectionId]
                    newType == IF Truthy(db_type)
                                  /\ toUpperCase(db_type[2]) \in EngineTypes
                               THEN toUpperCase(db_type[2]) ELSE connection.db_type
                    newRow == [db_type |-> newType,
                               cfg |-> IF changed THEN connection.cfg + 1
                                                  ELSE connection.cfg,
                               is_active |-> IF is_active # Undefined THEN is_active[2]
                                             ELSE connection.is_active]
                IN  /\ changed => connection.cfg < MaxCfg
                    /\ db_connections' = [db_connections EXCEPT ![connectionId] = newRow]
                    /\ poolObjs' = ClosePoolBegin(poolObjs, Num(connectionId))
                    /\ IF PoolsHas(Num(connectionId))
                       THEN tasks' = [tasks EXCEPT ![t] =
                                [tk EXCEPT !.pc = "cp_closing",
                                           !.poolInfo = PoolsGet(Num(connectionId))]]
                       ELSE tasks' = [tasks EXCEPT ![t] = Finish(tk, 200)]
        /\ UNCHANGED <<users, user_db_access, role_permissions, query_logs, pools,
                       driverOk, exited, permRes, gate>>

\* closePool resumes after the engine close, then the route answers
ClosePoolDone(t) ==
    /\ ~exited
    /\ tasks[t].pc = "cp_closing"
    /\ poolObjs' \in ClosePoolSettled(poolObjs, tasks[t].poolInfo)
    /\ pools' = PoolsDelete(pools, tasks[t].connectionId)
    /\ tasks' = [tasks EXCEPT ![t] = Finish(tasks[t], 200)]
    /\ metaUnchanged
    /\ UNCHANGED <<query_logs, driverOk, exited, permRes, gate>>

\* DELETE /api/connections/:id/grant/:userId deleting by user only
RevokeAccess_WholeUser(adminId, param, userParam) ==
    LET connectionId == parseInt(Str(param))
        userId == parseInt(Str(userParam))
    IN  /\ ~exited
        /\ users[adminId].is_active # 0 /\ users[adminId].role = "ADMIN"
        /\ user_db_access' = {uda \in user_db_access : uda[1] # userId}
        /\ UNCHANGED <<users, db_connections, role_permissions, query_logs, pools,
                       poolObjs, driverOk, tasks, exited, permRes, gate>>

\* POST /api/connections/:id/grant/:userId
GrantAccess(adminId, param, userParam) ==
    LET connectionId == parseInt(Str(param))
        userId == parseInt(Str(userParam))
    IN  /\ ~exited
        /\ users[adminId].is_active # 0 /\ users[adminId].role = "ADMIN"
        \* INSERT OR IGNORE; a row naming no user or no connection violates a
        \* foreign key, the route catches the throw and answers 500
        /\ user_db_access' =
              IF userId \in DOMAIN users /\ connectionId \in DOMAIN db_connections
              THEN user_db_access \cup {<<userId, connectionId>>}
              ELSE user_db_access
        /\ UNCHANGED <<users, db_connections, role_permissions, query_logs, pools,
                       poolObjs, driverOk, tasks, exited, permRes, gate>>

\* DELETE /api/connections/:id/grant/:userId
RevokeAccess(adminId, param, userParam) ==
    LET connectionId == parseInt(Str(param))
        userId == parseInt(Str(userParam))
    IN  /\ ~exited
        /\ users[adminId].is_active # 0 /\ users[adminId].role = "ADMIN"
        /\ user_db_access' = user_db_access \ {<<userId, connectionId>>}
        /\ UNCHANGED <<users, db_connections, role_permissions, query_logs, pools,
                       poolObjs, driverOk, tasks, exited, permRes, gate>>

----------------------------------------------------------------------------
(* server.js: SIGINT / SIGTERM -> closeAllPools() -> process.exit(0) *)

\* one turn of `for (const [id] of pools) await closePool(id)`: the iterator
\* yields the oldest entry still in the Map, or the loop ends and the
\* process exits.
CloseAllNext(t, tk, objs, reg) ==
    IF Len(reg) = 0
    THEN /\ tasks' = [tasks EXCEPT ![t] = Finish(tk, 0)]
         /\ poolObjs' = objs
         /\ exited' = TRUE
    ELSE /\ tasks' = [tasks EXCEPT ![t] =
                [tk EXCEPT !.pc = "ca_closing", !.connectionId = reg[1].key,
                           !.poolInfo = reg[1].pool]]
         /\ poolObjs' = [objs EXCEPT ![reg[1].pool].state = "closing"]
         /\ exited' = FALSE

\* the pools in the Map when closeAllPools is called, in the Map's order
RegisteredAtCall(reg) == [i \in 1..Len(reg) |-> reg[i].pool]

Shutdown(t) ==
    /\ Free(t)
    /\ ~exited
    /\ CloseAllNext(t, [IdleTask EXCEPT !.op = "shutdown",
                                        !.trace = RegisteredAtCall(pools)],
                    poolObjs, pools)
    /\ metaUnchanged
    /\ UNCHANGED <<query_logs, pools, driverOk, permRes, gate>>

ShutdownStep(t) ==
    /\ ~exited
    /\ tasks[t].pc = "ca_closing"
    /\ LET reg == PoolsDelete(pools, tasks[t].connectionId)
       IN  /\ pools' = reg
           /\ \E objs \in ClosePoolSettled(poolObjs, tasks[t].poolInfo) :
                 CloseAllNext(t, tasks[t], objs, reg)
    /\ metaUnchanged
    /\ UNCHANGED <<query_logs, driverOk, permRes, gate>>

----------------------------------------------------------------------------
(* routes/admin.js *)

\* PUT /api/admin/permissions
UpdatePermission(adminId, role, operation, is_allowed, max_rows) ==
    LET answer(status) == [status |-> status, role |-> role,
                           operation |-> operation]
    IN  /\ ~exited
        /\ users[adminId].is_active # 0 /\ users[adminId].role = "ADMIN"
        /\ IF role \notin validRoles \/ operation \notin validOps
           THEN /\ permRes' = answer(400)
                /\ UNCHANGED role_permissions
           ELSE IF role = "ADMIN" /\ is_allowed = Num(0)
           THEN /\ permRes' = answer(400)
                /\ UNCHANGED role_permissions
           ELSE /\ permRes' = answer(200)
                /\ role_permissions' =
                      permissionUpdate(role_permissions, is_allowed, max_rows,
                                       role, operation)
        /\ UNCHANGED <<users, db_connections, user_db_access, query_logs, pools,
                       poolObjs, driverOk, tasks, exited, gate>>

\* PUT /api/admin/users/:id behind authMiddleware and requireAdmin
UpdateUser(adminId, param, role, is_active) ==
    LET userId == parseInt(Str(param))
    IN  /\ ~exited
        /\ users[adminId].is_active # 0 /\ users[adminId].role = "ADMIN"
        /\ IF userId \notin DOMAIN users
           THEN UNCHANGED users
           ELSE IF userId = adminId /\ Truthy(role) /\ role # Str("ADMIN")
           THEN UNCHANGED users
           ELSE IF userId = adminId /\ is_active = Num(0)
           THEN UNCHANGED users
           ELSE LET user == users[userId]
                    newRole == IF Truthy(role) /\ role[2] \in validRoles
                               THEN role[2] ELSE user.role
                    newActive == IF is_active # Undefined
                                 THEN SqliteStore(is_active) ELSE user.is_active
                IN  users' = [users EXCEPT ![userId] =
                                 [role |-> newRole, is_active |-> newActive]]
        /\ UNCHANGED <<db_connections, user_db_access, role_permissions,
                       query_logs, pools, poolObjs, driverOk, tasks, exited,
                       permRes, gate>>

\* DELETE /api/admin/users/:id behind authMiddleware and requireAdmin
DeleteUser(adminId, param) ==
    LET userId == parseInt(Str(param))
    IN  /\ ~exited
        /\ users[adminId].is_active # 0 /\ users[adminId].role = "ADMIN"
        /\ IF userId = adminId \/ userId \notin DOMAIN users
           THEN UNCHANGED users
           ELSE users' = [users EXCEPT ![userId].is_active = 0]
        /\ UNCHANGED <<db_connections, user_db_access, role_permissions,
                       query_logs, pools, poolObjs, driverOk, tasks, exited,
                       permRes, gate>>

----------------------------------------------------------------------------
(* The gatekeeper calls, one at a time *)

\* the record of a call; prev is what the call before it returned when that
\* was the same function on the same arguments
Called(fn, sql, role, schema, out) ==
    [fn |-> fn, sql |-> sql, role |-> role, schema |-> schema, out |-> out,
     prev |-> IF gate.fn = fn /\ gate.sql = sql /\ gate.role = role
                 /\ gate.schema = schema
              THEN gate.out ELSE NoRow]

gateOnly ==
    UNCHANGED <<users, db_connections, user_db_access, role_permissions,
                query_logs, pools, poolObjs, driverOk, tasks, exited, permRes>>

\* SQLValidator.validate(sql, role, schema)
Validate(sql, role, schema) ==
    /\ gate' = Called("validate", sql, role, schema, validate(sql, role, schema))
    /\ gateOnly

\* validateSqlPermissions(sql, role)
PermissionCheck(sql, role) ==
    /\ gate' = Called("validateSqlPermissions", sql, role, Undefined,
                      validateSqlPermissions(role_permissions, sql, role))
    /\ gateOnly

\* handleRunQuery up to the server's verdict on the posted statement
RunQuery(sql, role, schema) ==
    /\ gate' = Called("handleRunQuery", sql, role, schema,
                      handleRunQuery(role_permissions, sql, role, schema))
    /\ gateOnly

\* executeQuery(connectionId, sql, permissionCheck.maxRows) on an engine of
\* the given type, for the statement validateSqlPermissions has just passed
FetchRows(type, kind, n) ==
    /\ gate.fn = "validateSqlPermissions"
    /\ gate.out.valid
    /\ kind = "rows" => SqlTests[gate.sql].operation = "SELECT"
    /\ kind = "header" => SqlTests[gate.sql].operation # "SELECT"
    /\ gate' = [fn |-> "executeQuery", sql |-> "", role |-> "",
                schema |-> Undefined,
                out |-> [type |-> type, maxRows |-> gate.out.maxRows,
                         operation |-> SqlTests[gate.sql].operation,
                         result |-> executeQueryResult(type, gate.out.maxRows,
                                                       kind, n)],
                prev |-> NoRow]
    /\ gateOnly

----------------------------------------------------------------------------
(* Inputs *)

UserIds == {1, 2}
ConnectionIdInputs == {Num(1), Str("1"), Num(9), Undefined}
IdParams == {"1", "9"}
UserParams == {"2"}
DbTypeInputs == {Undefined, Str("mysql")}
IsActiveInputs == {Undefined, Num(0), Num(1)}
PermRoleInputs == {"ADMIN", "ANALYST", "GUEST"}
PermOperationInputs == {"SELECT", "JOIN", "DDL"}
IsAllowedInputs == {Num(0), Num(1), Bool(TRUE), Bool(FALSE), Null, Undefined}
MaxRowsInputs == {Undefined, Num(0), Num(500)}
ResultKinds == {"rows", "header", "error"}
UserIdParams == {"1", "2", "3", "9"}
UserRoleInputs == {Undefined, Str("ADMIN"), Str("DEVELOPER"), Str("ANALYST"),
                   Str("GUEST")}
UserActiveInputs == {Undefined, Num(0), Num(1), Str("0")}

----------------------------------------------------------------------------
(* Specifications *)

\* one step of an in-flight call of task t
PoolStep(t) ==
    \/ GetDriverDone(t)
    \/ OracleCreateDone(t)
    \/ RegisterPool(t)
    \/ BorrowDone(t)
    \/ QueryDone(t)
    \/ Settle(t)

\* the pool manager under concurrent calls made for the administrator:
\* schema requests (getSchema -> getConnection), connection updates
\* (closePool) and shutdown (closeAllPools)
Next ==
    \/ \E t \in Tasks : SchemaRequest(t, 1, "1")
    \/ \E t \in Tasks : PoolStep(t)
    \/ \E t \in Tasks, ch \in BOOLEAN, ty \in DbTypeInputs, a \in IsActiveInputs :
          UpdateConnection(t, 1, "1", ch, ty, a)
    \/ \E t \in Tasks : ClosePoolDone(t)
    \/ \E t \in Tasks : Shutdown(t)
    \/ \E t \in Tasks : ShutdownStep(t)

Spec == Init /\ [][Next]_vars

\* the query route, one request at a time, for every caller and statement
NextExec ==
    \/ \E u \in UserIds, c \in ConnectionIdInputs, q \in SqlInputs :
          ExecuteRequest(1, u, c, q)
    \/ \E u \in UserIds, c \in IdParams : SchemaRequest(1, u, c)
    \/ PoolStep(1)
    \/ \E u \in UserIds, c \in IdParams, g \in UserParams : GrantAccess(u, c, g)
    \/ \E u \in UserIds, c \in IdParams, g \in UserParams : RevokeAccess(u, c, g)

SpecExec == Init /\ [][NextExec]_vars

\* the administrative permission editor
NextPerm ==
    \E u \in UserIds, r \in PermRoleInputs, o \in PermOperationInputs,
       a \in IsAllowedInputs, m \in MaxRowsInputs :
       UpdatePermission(u, r, o, a, m)

SpecPerm == Init /\ [][NextPerm]_vars

\* the client-side validator applied to every statement, role and table list
NextValidate ==
    \E q \in GateSqlInputs, r \in Roles, s \in SchemaInputs : Validate(q, r, s)

SpecValidate == Init /\ [][NextValidate]_vars

\* the meta database with any of the permission tables
InitGate ==
    /\ users = (1 :> [role |-> "ADMIN", is_active |-> 1]
                @@ 2 :> [role |-> "DEVELOPER", is_active |-> 1])
    /\ db_connections = (1 :> [db_type |-> "ORACLE", cfg |-> 1, is_active |-> 1])
    /\ user_db_access = {<<1, 1>>}
    /\ role_permissions \in PermissionTables
    /\ query_logs = EmptyBag
    /\ pools = <<>>
    /\ poolObjs = <<>>
    /\ driverOk = EngineTypes
    /\ tasks = [t \in Tasks |-> IdleTask]
    /\ exited = FALSE
    /\ permRes = [status |-> 0, role |-> "", operation |-> ""]
    /\ gate = IdleGate

\* the server-side permission gate, the whole gatekeeper and the executor's
\* row cap, under every permission table
NextGate ==
    \/ \E q \in SqlInputs \cup GateSqlInputs, r \in Roles : PermissionCheck(q, r)
    \/ \E q \in GateSqlInputs, r \in Roles, s \in SchemaInputs : RunQuery(q, r, s)
    \/ \E ty \in EngineTypes, k \in ResultKinds, n \in 0..MaxFetched :
          FetchRows(ty, k, n)

SpecGate == InitGate /\ [][NextGate]_vars

\* the meta database with one connection of each of two engine types, and
\* the driver of at most one engine type missing
InitDrivers ==
    /\ users = (1 :> [role |-> "ADMIN", is_active |-> 1]
                @@ 2 :> [role |-> "DEVELOPER", is_active |-> 1])
    /\ \E ty \in EngineTypes \ {"ORACLE"} :
          db_connections = (1 :> [db_type |-> "ORACLE", cfg |-> 1, is_active |-> 1]
                            @@ 2 :> [db_type |-> ty, cfg |-> 1, is_active |-> 1])
    /\ user_db_access = {<<1, 1>>}
    /\ role_permissions = DefaultPermissions
    /\ query_logs = EmptyBag
    /\ pools = <<>>
    /\ poolObjs = <<>>
    /\ driverOk \in {EngineTypes} \cup {EngineTypes \ {ty} : ty \in EngineTypes}
    /\ tasks = [t \in Tasks |-> IdleTask]
    /\ exited = FALSE
    /\ permRes = [status |-> 0, role |-> "", operation |-> ""]
    /\ gate = IdleGate

\* requests of the administrator against both connections, one at a time
NextDrivers ==
    \/ \E c \in {Num(1), Num(2)} : ExecuteRequest(1, 1, c, "SELECT 1")
    \/ \E c \in {"1", "2"} : SchemaRequest(1, 1, c)
    \/ PoolStep(1)

SpecDrivers == InitDrivers /\ [][NextDrivers]_vars

\* the administrator's schema requests against two connections and the
\* updates of their configurations, one at a time
NextClose ==
    \/ \E c \in {"1", "2"} : SchemaRequest(1, 1, c)
    \/ PoolStep(1)
    \/ \E c \in {"1", "2", "9"} :
          UpdateConnection(1, 1, c, FALSE, Undefined, Undefined)
    \/ ClosePoolDone(1)

SpecClose == InitDrivers /\ [][NextClose]_vars

\* two connections, the administrator holding a grant on the first
InitAccess ==
    /\ users = (1 :> [role |-> "ADMIN", is_active |-> 1]
                @@ 2 :> [role |-> "DEVELOPER", is_active |-> 1])
    /\ db_connections = (1 :> [db_type |-> "ORACLE", cfg |-> 1, is_active |-> 1]
                         @@ 2 :> [db_type |-> "MYSQL", cfg |-> 1, is_active |-> 1])
    /\ user_db_access = {<<1, 1>>}
    /\ role_permissions = DefaultPermissions
    /\ query_logs = EmptyBag
    /\ pools = <<>>
    /\ poolObjs = <<>>
    /\ driverOk = EngineTypes
    /\ tasks = [t \in Tasks |-> IdleTask]
    /\ exited = FALSE
    /\ permRes = [status |-> 0, role |-> "", operation |-> ""]
    /\ gate = IdleGate

\* grants and revocations by the administrator, execute requests of the
\* developer, and the administrator switching a connection off and on
NextAccess ==
    \/ \E c \in {"1", "2"}, g \in {"1", "2"} : GrantAccess(1, c, g)
    \/ \E c \in {"1", "2"}, g \in {"1", "2"} : RevokeAccess(1, c, g)
    \/ \E c \in {Num(1), Str("2")} : ExecuteRequest(1, 2, c, "SELECT 1")
    \/ PoolStep(1)
    \/ \E a \in IsActiveInputs : UpdateConnection(1, 1, "1", FALSE, Undefined, a)
    \/ ClosePoolDone(1)

SpecAccess == InitAccess /\ [][NextAccess]_vars

\* schema requests of the administrator against two connections, served
\* concurrently, and the shutdown signal
NextShutdown ==
    \/ \E t \in Tasks, c \in {"1", "2"} : SchemaRequest(t, 1, c)
    \/ \E t \in Tasks : PoolStep(t)
    \/ \E t \in Tasks : Shutdown(t)
    \/ \E t \in Tasks : ShutdownStep(t)

SpecShutdown == InitAccess /\ [][NextShutdown]_vars

\* three users, one of them the administrator
InitUsers ==
    /\ users = (1 :> [role |-> "ADMIN", is_active |-> 1]
                @@ 2 :> [role |-> "DEVELOPER", is_active |-> 1]
                @@ 3 :> [role |-> "ANALYST", is_active |-> 1])
    /\ db_connections = (1 :> [db_type |-> "ORACLE", cfg |-> 1, is_active |-> 1])
    /\ user_db_access = {<<1, 1>>}
    /\ role_permissions = DefaultPermissions
    /\ query_logs = EmptyBag
    /\ pools = <<>>
    /\ poolObjs = <<>>
    /\ driverOk = EngineTypes
    /\ tasks = [t \in Tasks |-> IdleTask]
    /\ exited = FALSE
    /\ permRes = [status |-> 0, role |-> "", operation |-> ""]
    /\ gate = IdleGate

\* the user administration, by whoever is an active administrator
NextUsers ==
    \/ \E a \in DOMAIN users, p \in UserIdParams, r \in UserRoleInputs,
          i \in UserActiveInputs : UpdateUser(a, p, r, i)
    \/ \E a \in DOMAIN users, p \in UserIdParams : DeleteUser(a, p)

SpecUsers == InitUsers /\ [][NextUsers]_vars

----------------------------------------------------------------------------
(* Properties of the pool manager *)

PoolsOf(id) == {p \in 1..Len(poolObjs) : poolObjs[p].conn = id}

LivePoolsOf(id) == {p \in PoolsOf(id) : poolObjs[p].state # "closed"}

Registered == {pools[i].pool : i \in 1..Len(pools)}

\* tasks that are borrowing or hold a connection
Borrowers == {t \in Tasks : tasks[t].pc \in {"gc_borrow", "eq_run"}}

\* C1: concurrent first use of a connection id constructs one pool: as long
\* as no pool of the id has been closed, at most one pool has been
\* constructed for it, and every caller borrows from that one pool.
C1_SinglePoolOnFirstUse ==
    \A id \in DOMAIN db_connections :
        (\A p \in PoolsOf(id) : poolObjs[p].state = "open")
        => /\ Cardinality(PoolsOf(id)) <= 1
           /\ \A t, u \in Borrowers : tasks[t].poolInfo = tasks[u].poolInfo

\* C2: every connection id has at most one pool that is constructed and not
\* closed, and that pool is the registered one (a pool still on its way from
\* createPool to pools.set excepted).
C2_OneLivePoolInRegistry ==
    \A id \in DOMAIN db_connections :
        /\ Cardinality(LivePoolsOf(id)) <= 1
        /\ \A p \in LivePoolsOf(id) :
              \/ p \in Registered
              \/ \E t \in Tasks : tasks[t].pc = "gc_created" /\ tasks[t].newPool = p

\* C3: a connection handed out by a getConnection that was called while no
\* closePool was pending comes from a pool built with the settings stored
\* when it was called.
C3_FreshPoolAfterUpdate ==
    \A t \in Tasks :
        (tasks[t].pc = "eq_run" /\ tasks[t].quiet)
        => /\ poolObjs[tasks[t].poolInfo].cfg = tasks[t].connConfig.cfg
           /\ poolObjs[tasks[t].poolInfo].type = tasks[t].connConfig.db_type

\* C4: executeQuery and getSchema invoke release exactly once for an
\* acquired connection, on every way out, and never without one.
C4_ReleaseOncePerAcquisition ==
    \A t \in Tasks :
        /\ tasks[t].released <= tasks[t].acquired
        /\ tasks[t].op \in {"execute", "schema"} /\ tasks[t].pc \in {"settle", "done"}
           => tasks[t].released = tasks[t].acquired

\* a query failed on a borrowed connection and the call has returned
C4_Witness ==
    \E t \in Tasks :
        /\ tasks[t].op = "execute" /\ tasks[t].pc = "done"
        /\ tasks[t].acquired = 1 /\ tasks[t].released = 1
        /\ tasks[t].result = "error"

----------------------------------------------------------------------------
(* Properties of the query route *)

Count(seq, e) == Cardinality({i \in 1..Len(seq) : seq[i] = e})

\* executeQuery has been called for the request of task t
Reached(t) ==
    /\ tasks[t].op = "execute"
    /\ \/ tasks[t].pc \in {"gc_driver", "gc_construct", "gc_created", "gc_borrow",
                           "eq_run", "settle"}
       \/ tasks[t].result # "none"

\* the request of task t passed the presence checks for connectionId and sql
Checked(t) == tasks[t].op = "execute" /\ tasks[t].res # 400

\* C5: an execute request calls executeQuery at most once, and only after
\* the access check and validateSqlPermissions both passed; a statement
\* that does not validate never reaches executeQuery.
C5_ValidationPrecedesExecution ==
    \A t \in Tasks :
        tasks[t].op = "execute"
        => /\ Count(tasks[t].trace, "executeQuery") <= 1
           /\ Reached(t)
              => /\ tasks[t].trace = <<"access_ok", "validate_ok", "executeQuery">>
                 /\ tasks[t].role = "ADMIN" \/ tasks[t].granted
                 /\ validateSqlPermissions(role_permissions, tasks[t].sql,
                                           tasks[t].role).valid

\* a granted DEVELOPER's SELECT was validated, executed and answered
C5_Witness ==
    \E t \in Tasks :
        /\ tasks[t].op = "execute" /\ tasks[t].pc = "done"
        /\ tasks[t].role = "DEVELOPER" /\ tasks[t].res = 200
        /\ tasks[t].result = "ok"

\* C6: a request passes the access check exactly when the caller is ADMIN
\* or holds a grant; a non-ADMIN caller without a grant is answered 403 and
\* logged BLOCKED, with no validation and no execution.
C6_AccessCheck ==
    \A t \in Tasks :
        (Checked(t) /\ tasks[t].pc = "done")
        => /\ ("access_ok" \in {tasks[t].trace[i] : i \in 1..Len(tasks[t].trace)})
              <=> (tasks[t].role = "ADMIN" \/ tasks[t].granted)
           /\ (tasks[t].role # "ADMIN" /\ ~tasks[t].granted)
              => /\ tasks[t].res = 403
                 /\ tasks[t].logged = <<"BLOCKED">>
                 /\ tasks[t].trace = <<"access_denied", "log_blocked">>
                 /\ ~Reached(t)

\* C7: every execute request that passed the presence checks has written
\* exactly one query_logs row when it ends: BLOCKED if a check failed,
\* SUCCESS if executeQuery returned, FAILED if it threw.
C7_OneLogRowPerRequest ==
    \A t \in Tasks :
        (Checked(t) /\ tasks[t].pc = "done")
        => /\ Len(tasks[t].logged) = 1
           /\ tasks[t].logged[1] =
                 IF ~Reached(t) THEN "BLOCKED"
                 ELSE IF tasks[t].result = "ok" THEN "SUCCESS" ELSE "FAILED"

----------------------------------------------------------------------------
(* Properties of the policy store *)

\* roles and operations checkOperationPermission is asked about
CheckRoleInputs == Roles \cup {"GUEST"}
CheckOperationInputs == validOps \cup {"DDL", "UNKNOWN", "MERGE"}

\* C8: every ADMIN row of role_permissions keeps is_allowed = 1.
C8_AdminAlwaysAllowed ==
    \A ro \in DOMAIN role_permissions :
        ro[1] = "ADMIN" => role_permissions[ro].is_allowed = 1

\* C9: DDL is allowed exactly for ADMIN, with maxRows = 0, whatever the
\* table holds; the table never holds a DDL row and an update naming DDL is
\* answered 400.
C9_DdlHardcoded ==
    /\ \A r \in Roles :
          checkOperationPermission(role_permissions, r, "DDL")
              = [allowed |-> (r = "ADMIN"), maxRows |-> 0]
    /\ \A ro \in DOMAIN role_permissions : ro[2] # "DDL"
    /\ permRes.operation = "DDL" => permRes.status = 400

\* an update naming operation DDL for a valid role has been answered
C9_Witness ==
    /\ permRes.operation = "DDL" /\ permRes.role = "ANALYST"
    /\ permRes.status = 400
    /\ role_permissions # DefaultPermissions

\* C10 as stated: not allowed for UNKNOWN, not allowed for a pair without a
\* row, allowed only through a row with is_allowed = 1.
C10_FailClosed ==
    \A r \in CheckRoleInputs, o \in CheckOperationInputs :
        LET row == isOperationAllowed(role_permissions, r, o)
            check == checkOperationPermission(role_permissions, r, o)
        IN  /\ o = "UNKNOWN" => ~check.allowed
            /\ row = NoRow => ~check.allowed
            /\ check.allowed => (row # NoRow /\ row.is_allowed = 1)

\* C10 amended: as C10, for every operation other than the hardcoded DDL;
\* DDL is allowed exactly for ADMIN.
C10_FailClosedExceptDdl ==
    \A r \in CheckRoleInputs, o \in CheckOperationInputs :
        LET row == isOperationAllowed(role_permissions, r, o)
            check == checkOperationPermission(role_permissions, r, o)
        IN  IF o = "DDL" THEN check.allowed <=> (r = "ADMIN")
            ELSE /\ o = "UNKNOWN" => ~check.allowed
                 /\ row = NoRow => ~check.allowed
                 /\ check.allowed <=> (row # NoRow /\ row.is_allowed = 1)

\* the editor has granted ANALYST the JOIN operation and withdrawn SELECT
C10_Witness ==
    /\ role_permissions[<<"ANALYST", "JOIN">>].is_allowed = 1
    /\ role_permissions[<<"ANALYST", "SELECT">>].is_allowed = 0
    /\ checkOperationPermission(role_permissions, "ANALYST", "JOIN").allowed
    /\ ~checkOperationPermission(role_permissions, "ANALYST", "SELECT").allowed


----------------------------------------------------------------------------
(* Properties of the gatekeeper *)

\* the first keyword of a statement, upper-cased ("" if it has none)
FirstKeyword(sql) ==
    LET tokens == wordTokens(toUpperCase(sql))
    IN  IF Len(tokens) = 0 THEN "" ELSE tokens[1]

\* the statements whose first keyword is a DDL keyword
DdlStatements ==
    {q \in SqlInputs \cup GateSqlInputs :
        FirstKeyword(q) \in {"CREATE", "DROP", "ALTER", "TRUNCATE", "GRANT",
                             "REVOKE", "RENAME"}}

TraceSet(t) == {tasks[t].trace[i] : i \in 1..Len(tasks[t].trace)}

----------------------------------------------------------------------------
(* Properties of the client-side validator *)

MultipleStatementsError == "Security Violation: Multiple SQL statements detected."

ForbiddenKeywordError(keyword) ==
    "Security Violation: Forbidden keyword '" \o keyword \o "' detected."

\* the statements with more than one non-empty segment after splitting on
\* ';' and trimming
StackedStatements == {q \in GateSqlInputs : Len(StatementParts(q)) > 1}

\* the statements in which a forbidden keyword occurs as a whole word
KeywordStatements ==
    {q \in GateSqlInputs :
        \E k \in 1..Len(FORBIDDEN_SQL_KEYWORDS) :
            HasWord(q, FORBIDDEN_SQL_KEYWORDS[k])}

\* C12 as stated: a statement with more than one non-empty segment is
\* rejected, and validate("SELECT * FROM t; DROP TABLE t;", ANALYST, ...)
\* reports the multiple-statements error.
C12_StackedReportedAsMultiple ==
    (gate.fn = "validate" /\ gate.sql \in StackedStatements)
    => /\ ~gate.out.isValid
       /\ (gate.sql = "SELECT * FROM t; DROP TABLE t;" /\ gate.role = "ANALYST")
          => gate.out.error = MultipleStatementsError

\* C12: a statement with more than one non-empty segment is rejected; the
\* error is the multiple-statements error when the role is ADMIN or no
\* forbidden keyword occurs in it as a whole word, and the forbidden-keyword
\* error of the earlier step otherwise, as for
\* validate("SELECT * FROM t; DROP TABLE t;", ANALYST, ...), which names DROP.
C12_StackedRejected ==
    (gate.fn = "validate" /\ gate.sql \in StackedStatements)
    => /\ ~gate.out.isValid
       /\ (gate.out.error = MultipleStatementsError)
          <=> (gate.role = "ADMIN" \/ gate.sql \notin KeywordStatements)
       /\ (gate.sql = "SELECT * FROM t; DROP TABLE t;" /\ gate.role = "ANALYST")
          => gate.out.error = ForbiddenKeywordError("DROP")

\* the stacked statement of the example was validated for ANALYST, and a
\* stacked statement without forbidden keyword got the multiple-statements
\* error
C12_Witness ==
    /\ gate.fn = "validate"
    /\ gate.sql = "SELECT 1; SELECT 2"
    /\ gate.role = "ANALYST"
    /\ gate.out.error = MultipleStatementsError


\* the result is the rejection of the forbidden-keyword step for keyword k
IsKeywordError(out, k) ==
    out = [isValid |-> FALSE, error |-> ForbiddenKeywordError(FORBIDDEN_SQL_KEYWORDS[k])]

\* the statements in which a forbidden keyword occurs, but only inside a
\* longer identifier
SubstringOnlyStatements ==
    {q \in GateSqlInputs \ KeywordStatements :
        \E k \in 1..Len(FORBIDDEN_SQL_KEYWORDS) :
            includes(toUpperCase(q), FORBIDDEN_SQL_KEYWORDS[k])}

\* C13: for a non-ADMIN role a statement in which a forbidden keyword
\* occurs as a whole word, in any letter case, is rejected with the error of
\* such a keyword; a statement in which forbidden keywords occur only
\* inside longer identifiers, or not at all, is not rejected by the keyword
\* check; for ADMIN the keyword check never rejects.
C13_ForbiddenKeywordWholeWord ==
    gate.fn = "validate"
    => /\ (gate.role # "ADMIN" /\ gate.sql \in KeywordStatements)
          => \E k \in 1..Len(FORBIDDEN_SQL_KEYWORDS) :
                /\ HasWord(gate.sql, FORBIDDEN_SQL_KEYWORDS[k])
                /\ IsKeywordError(gate.out, k)
       /\ (gate.role = "ADMIN" \/ gate.sql \notin KeywordStatements)
          => \A k \in 1..Len(FORBIDDEN_SQL_KEYWORDS) : ~IsKeywordError(gate.out, k)

\* a DEVELOPER's statement holding 'Drop' as a word was rejected for DROP
C13_Witness ==
    /\ gate.fn = "validate"
    /\ gate.role = "DEVELOPER"
    /\ gate.sql = "SELECT a FROM t WHERE b = 'Drop'"
    /\ IsKeywordError(gate.out, 1)
    /\ "SELECT created_at FROM t" \in SubstringOnlyStatements


\* the tables of the list that the role may not access
RestrictedFor(activeSchema, role) ==
    {k \in 1..Len(activeSchema) :
        /\ activeSchema[k].restrictedRoles # Undefined
        /\ ~arrayIncludes(activeSchema[k].restrictedRoles, role)}

\* where the table name first occurs in the statement as a whole word
FirstOccurrence(sql, name) ==
    CHOOSE i \in 1..Len(sql) :
        WordAt(sql, name, i) /\ \A j \in 1..(i - 1) : ~WordAt(sql, name, j)

AccessDeniedError(table) ==
    "Access Denied: You do not have permission to query table '" \o table \o "'."

\* C14: with a non-empty table list, a statement that references, as a
\* whole word in any letter case, a table of the list the role may not
\* access is rejected; when it has passed the keyword and stacking steps the
\* error names the inaccessible table that appears first in the statement;
\* a statement that references no such table passes the table step.
C14_TableAccess ==
    (gate.fn = "validate" /\ Len(ActiveSchema(gate.schema)) > 0)
    => LET activeSchema == ActiveSchema(gate.schema)
           referenced == {k \in RestrictedFor(activeSchema, gate.role) :
                             HasWord(gate.sql, activeSchema[k].tableName)}
           earlier == \/ gate.role # "ADMIN" /\ gate.sql \in KeywordStatements
                      \/ gate.sql \in StackedStatements
       IN  /\ referenced # {} => ~gate.out.isValid
           /\ (referenced # {} /\ ~earlier)
              => \E k \in referenced :
                    /\ \A j \in referenced :
                          FirstOccurrence(gate.sql, activeSchema[k].tableName)
                          <= FirstOccurrence(gate.sql, activeSchema[j].tableName)
                    /\ gate.out.error
                          = AccessDeniedError(toLowerCase(activeSchema[k].tableName))
           /\ (referenced = {} /\ ~earlier) => gate.out.isValid

\* ANALYST's statement over system_logs and financial_reports was rejected
\* naming system_logs, which comes first in the statement and last in the
\* table list
C14_Witness ==
    /\ gate.fn = "validate"
    /\ gate.role = "ANALYST"
    /\ gate.schema = Undefined
    /\ gate.sql = "SELECT * FROM System_Logs, financial_reports"
    /\ gate.out.error = AccessDeniedError("system_logs")


----------------------------------------------------------------------------
(* Properties of the server-side permission gate and the whole gatekeeper *)

\* C15: validateSqlPermissions answers valid exactly when the primary
\* operation is allowed, JOIN is allowed if the statement holds the whole
\* word JOIN, and CTE is allowed if it matches WITH ... AS; an allowed
\* primary operation does not save a statement whose modifier is not allowed.
C15_ModifiersChecked ==
    gate.fn = "validateSqlPermissions"
    => LET upperSql == trim(toUpperCase(gate.sql))
           allowed(operation) ==
               checkOperationPermission(role_permissions, gate.role, operation).allowed
           primary == allowed(SqlTests[gate.sql].operation)
           usesJoin == HasWord(upperSql, "JOIN")
           usesCte == HasWithAs(upperSql)
       IN  /\ gate.out.valid
              <=> (primary /\ (usesJoin => allowed("JOIN")) /\ (usesCte => allowed("CTE")))
           /\ (primary /\ usesJoin /\ ~allowed("JOIN")) => ~gate.out.valid
           /\ (primary /\ usesCte /\ ~allowed("CTE")) => ~gate.out.valid

\* ANALYST, allowed SELECT but not JOIN, had a SELECT with a JOIN rejected
C15_Witness ==
    /\ gate.fn = "validateSqlPermissions"
    /\ gate.role = "ANALYST"
    /\ gate.sql = "select a from t join u"
    /\ checkOperationPermission(role_permissions, "ANALYST", "SELECT").allowed
    /\ ~checkOperationPermission(role_permissions, "ANALYST", "JOIN").allowed
    /\ gate.out = [valid |-> FALSE,
                   error |-> "You do not have permission to use JOIN operations",
                   maxRows |-> 0]


\* the text ROWNUM or FETCH FIRST occurs in the statement, in any letter case
HasLimitText(sql) ==
    includes(toUpperCase(sql), "ROWNUM") \/ includes(toUpperCase(sql), "FETCH FIRST")

\* plain SELECT statements: one statement starting with SELECT, without
\* forbidden keyword, JOIN, WITH ... AS or a row limit of its own
PlainSelects ==
    {q \in GateSqlInputs \ (KeywordStatements \cup StackedStatements) :
        /\ FirstKeyword(q) = "SELECT"
        /\ ~HasWord(q, "JOIN")
        /\ ~HasWithAs(q)
        /\ ~HasLimitText(q)}

\* C16: for a role whose SELECT row is allowed with cap m, the gatekeeper
\* passes a plain SELECT over tables the role may read: the sanitized SQL is
\* the statement wrapped in a row-limiting query and max_rows is m.
C16_PlainSelectWrappedAndCapped ==
    (gate.fn = "handleRunQuery" /\ gate.sql \in PlainSelects)
    => LET activeSchema == ActiveSchema(gate.schema)
           row == role_permissions[<<gate.role, "SELECT">>]
           readable == \A k \in RestrictedFor(activeSchema, gate.role) :
                          ~HasWord(gate.sql, activeSchema[k].tableName)
       IN  (row.is_allowed = 1 /\ readable)
           => /\ gate.out.valid
              /\ DOMAIN gate.out = {"valid", "sanitized_sql", "max_rows"}
              /\ includes(gate.out.sanitized_sql,
                          "(" \o stripTrailingSemicolon(trim(gate.sql)) \o ")")
              /\ includes(gate.out.sanitized_sql, "WHERE ROWNUM <= ")
              /\ gate.out.max_rows = row.max_rows

\* ANALYST's SELECT * FROM sales_orders passed with max_rows 1000
C16_Witness ==
    /\ gate.fn = "handleRunQuery"
    /\ gate.role = "ANALYST"
    /\ gate.sql = "SELECT * FROM sales_orders"
    /\ role_permissions[<<"ANALYST", "SELECT">>] = [is_allowed |-> 1, max_rows |-> 1000]
    /\ gate.out.valid
    /\ gate.out.max_rows = 1000
    /\ gate.out.sanitized_sql
          = "SELECT * FROM (SELECT * FROM sales_orders) WHERE ROWNUM <= 1000"


----------------------------------------------------------------------------
(* Properties of the row-limit injection *)

\* the keyword a statement starts with after leading whitespace, upper-cased
LeadingKeyword(sql) ==
    LET rest == trimStart(toUpperCase(sql))
    IN  IF Len(rest) > 0 /\ IsWordChar(Ch(rest, 1)) THEN wordTokens(rest)[1] ELSE ""

\* the statement carries a row-limiting clause of the wrapper's dialect: the
\* pseudo-column ROWNUM or FETCH FIRST, as whole words
HasLimitClause(sql) ==
    \/ HasWord(sql, "ROWNUM")
    \/ \E i \in 1..Len(sql) :
          WordAt(sql, "FETCH", i) /\ WordAt(sql, "FIRST", i + 6)
          /\ Ch(sql, i + 5) = " "

\* C17: a statement that validates is returned trimmed and without one
\* trailing ';', wrapped in the row-limiting query exactly when it starts
\* with the whole word SELECT or WITH and carries no row-limiting clause.
C17_WrapExactlyWhen ==
    (gate.fn = "validate" /\ gate.out.isValid)
    => LET stripped == stripTrailingSemicolon(trim(gate.sql))
       IN  gate.out.sanitizedSql =
              IF LeadingKeyword(gate.sql) \in {"SELECT", "WITH"}
                 /\ ~HasLimitClause(gate.sql)
              THEN Wrap(stripped) ELSE stripped


----------------------------------------------------------------------------
(* Properties of the validation result *)

PermissionErrors(operation) ==
    {"You do not have permission to run " \o operation \o " queries",
     "You do not have permission to use JOIN operations",
     "You do not have permission to use Common Table Expressions (CTE)"}

\* C18: a result of the gatekeeper is either valid with a sanitized SQL
\* string and no error, or invalid with a non-empty error and no sanitized
\* SQL, and so is the result of the client-side validator it is built on;
\* the error is that of the first failing step in the order forbidden
\* keyword, statement stacking, table access, operation permission.
C18_ResultShapeAndOrder ==
    gate.fn = "handleRunQuery"
       => LET activeSchema == ActiveSchema(gate.schema)
              validation == validate(gate.sql, gate.role, gate.schema)
              keyword == gate.role # "ADMIN" /\ gate.sql \in KeywordStatements
              stacked == gate.sql \in StackedStatements
              denied == \E k \in RestrictedFor(activeSchema, gate.role) :
                           HasWord(gate.sql, activeSchema[k].tableName)
              permitted == validateSqlPermissions(role_permissions, gate.sql,
                                                  gate.role).valid
          IN  /\ \/ /\ validation.isValid
                    /\ DOMAIN validation = {"isValid", "sanitizedSql"}
                 \/ /\ ~validation.isValid
                    /\ DOMAIN validation = {"isValid", "error"}
                    /\ validation.error # ""
              /\ \/ /\ gate.out.valid
                    /\ DOMAIN gate.out = {"valid", "sanitized_sql", "max_rows"}
                 \/ /\ ~gate.out.valid
                    /\ DOMAIN gate.out = {"valid", "error"}
                    /\ gate.out.error # ""
              /\ IF keyword
                 THEN \E k \in 1..Len(FORBIDDEN_SQL_KEYWORDS) :
                         gate.out.error = ForbiddenKeywordError(FORBIDDEN_SQL_KEYWORDS[k])
                 ELSE IF stacked
                 THEN gate.out.error = MultipleStatementsError
                 ELSE IF denied
                 THEN \E k \in 1..Len(activeSchema) :
                         gate.out.error
                            = AccessDeniedError(toLowerCase(activeSchema[k].tableName))
                 ELSE IF ~permitted
                 THEN gate.out.error
                         \in PermissionErrors(SqlTests[gate.sql].operation)
                 ELSE gate.out.valid

\* ANALYST's stacked statement with DROP, which fails the keyword, stacking
\* and permission steps, was rejected with the error of the keyword step
C18_Witness ==
    /\ gate.fn = "handleRunQuery"
    /\ gate.role = "ANALYST"
    /\ gate.sql = "SELECT * FROM t; DROP TABLE t;"
    /\ gate.sql \in StackedStatements
    /\ gate.out = [valid |-> FALSE, error |-> ForbiddenKeywordError("DROP")]


----------------------------------------------------------------------------
(* Properties of the executor's row cap *)

\* C20: on every engine and for every maxRows the permission check returned,
\* a successful executeQuery returns at most maxRows rows, and rowCount is
\* the number of rows returned.
C20_AtMostMaxRows ==
    (gate.fn = "executeQuery" /\ gate.out.result.ok)
    => /\ gate.out.result.rows <= gate.out.maxRows
       /\ gate.out.result.rowCount = gate.out.result.rows

----------------------------------------------------------------------------
(* Properties of the role's permission summary *)

\* the operations whose row for the role has is_allowed set
AllowedRows(table, role) ==
    {o \in validOps : /\ <<role, o>> \in DOMAIN table
                      /\ table[<<role, o>>].is_allowed # 0}

\* C21: getRolePermissions(role) returns as allowedOperations exactly the
\* operations whose row for the role has is_allowed set, and, when there is
\* such an operation, as maxRows the greatest max_rows among them.
C21_RolePermissions ==
    \A r \in CheckRoleInputs :
        LET result == getRolePermissions(role_permissions, r)
            allowed == AllowedRows(role_permissions, r)
        IN  /\ {result.allowedOperations[i] :
                    i \in 1..Len(result.allowedOperations)} = allowed
            /\ Len(result.allowedOperations) = Cardinality(allowed)
            /\ allowed # {} =>
                  /\ \E o \in allowed :
                        result.maxRows = role_permissions[<<r, o>>].max_rows
                  /\ \A o \in allowed :
                        result.maxRows >= role_permissions[<<r, o>>].max_rows

----------------------------------------------------------------------------
(* Properties of a failed pool construction *)

\* the getConnection call of the task has failed inside createPool: the
\* configuration was found and active, and no pool was ever read
ConstructionFailed(tk) ==
    /\ tk.pc = "settle" /\ tk.result = "error"
    /\ tk.poolInfo = 0 /\ tk.acquired = 0
    /\ tk.connConfig # NoRow /\ tk.connConfig.is_active # 0

\* the task's last call answered 500 for an existing, active connection
\* without ever borrowing, and the registry holds no entry for its id
FailedBefore(tk) ==
    /\ tk.pc = "done" /\ tk.res = 500 /\ tk.acquired = 0
    /\ findConnectionById(tk.connectionId) # NoRow
    /\ findConnectionById(tk.connectionId).is_active # 0
    /\ ~PoolsHas(tk.connectionId)

----------------------------------------------------------------------------
(* Properties of a missing driver *)

\* the driver import of the task's createPool is about to settle
AtDriver(t) == tasks[t].pc = "gc_driver"

\* C23: when the driver of the connection's engine type cannot be loaded,
\* getConnection fails and the caller is answered with the error, the
\* registry and every pool are left as they were, and a construction for an
\* engine type whose driver loads can still go on.
C23_DriverUnavailable ==
    /\ [][\A t \in Tasks :
            (AtDriver(t) /\ tasks[t].connConfig.db_type \notin driverOk
                /\ tasks'[t] # tasks[t])
            => /\ ConstructionFailed(tasks'[t])
               /\ pools' = pools /\ poolObjs' = poolObjs
               /\ ~exited']_vars
    /\ [][\A t \in Tasks :
            (ConstructionFailed(tasks[t]) /\ tasks'[t] # tasks[t])
            => (tasks'[t].pc = "done" /\ tasks'[t].res = 500)]_vars
    /\ [](\A t \in Tasks :
            (AtDriver(t) /\ tasks[t].connConfig.db_type \in driverOk)
            => ENABLED (GetDriverDone(t)
                        /\ tasks'[t].pc \in {"gc_construct", "gc_created"}))

\* the ORACLE driver is missing and a request for the ORACLE connection is
\* failing on it, while the pool of the other connection is registered, open
\* and has served a request
C23_Witness ==
    /\ "ORACLE" \notin driverOk
    /\ ConstructionFailed(tasks[1]) /\ tasks[1].connConfig.db_type = "ORACLE"
    /\ PoolsHas(Num(2)) /\ poolObjs[PoolsGet(Num(2))].state = "open"
    /\ \E row \in BagToSet(query_logs) :
          row.status = "SUCCESS" /\ row.db_connection_id = 2

----------------------------------------------------------------------------
(* Properties of closePool *)

\* the registry entries under keys other than key, in order
OtherEntries(reg, key) == SelectSeq(reg, LAMBDA e : e.key # key)

\* the task has just called closePool from the update route
CallsClosePool(t) ==
    /\ tasks'[t] # tasks[t]
    /\ tasks'[t].op = "update"
    /\ tasks[t].pc \in {"idle", "done"}
    /\ tasks'[t].res # 404

\* C24: closePool(id) for an id without a registered pool returns at once and
\* leaves the registry and every pool as they were; for a registered id it
\* ends with the entry removed, whether or not the engine close threw, and
\* at no point changes an entry or a pool of another id.
C24_ClosePoolFrame ==
    [][\A t \in Tasks :
         /\ (CallsClosePool(t) /\ ~PoolsHas(tasks'[t].connectionId))
            => /\ tasks'[t].pc = "done" /\ tasks'[t].res = 200
               /\ pools' = pools /\ poolObjs' = poolObjs
         /\ (CallsClosePool(t) /\ PoolsHas(tasks'[t].connectionId))
            => /\ tasks'[t].pc = "cp_closing"
               /\ pools' = pools
               /\ \A p \in 1..Len(poolObjs) :
                     p # PoolsGet(tasks'[t].connectionId)
                     => poolObjs'[p] = poolObjs[p]
         /\ (tasks[t].pc = "cp_closing" /\ tasks'[t] # tasks[t])
            => /\ tasks'[t].pc = "done" /\ tasks'[t].res = 200
               /\ ~(\E i \in 1..Len(pools') : pools'[i].key = tasks[t].connectionId)
               /\ pools' = OtherEntries(pools, tasks[t].connectionId)
               /\ \A p \in 1..Len(poolObjs) :
                     p # tasks[t].poolInfo => poolObjs'[p] = poolObjs[p]]_vars

\* closePool(1) has returned after an engine close that threw: the entry of
\* id 1 is gone, the entry and the pool of id 2 are as they were
C24_Witness ==
    /\ tasks[1].op = "update" /\ tasks[1].pc = "done" /\ tasks[1].res = 200
    /\ tasks[1].connectionId = Num(1)
    /\ ~PoolsHas(Num(1)) /\ PoolsHas(Num(2))
    /\ poolObjs[PoolsGet(Num(2))].state = "open"
    /\ \E p \in 1..Len(poolObjs) :
          poolObjs[p].conn = 1 /\ poolObjs[p].state = "closing"

----------------------------------------------------------------------------
(* Properties of grants *)

\* the users that are not administrators
NonAdmins == {u \in DOMAIN users : users[u].role # "ADMIN"}

\* the task has just been given an execute request that passed the check of
\* its body
ExecuteArrives(t) ==
    /\ tasks'[t] # tasks[t]
    /\ tasks[t].pc \in {"idle", "done"}
    /\ tasks'[t].op = "execute"
    /\ tasks'[t].res # 400

\* the table differs from the one before at most in the pair
OnlyPairChanges(u, c) ==
    user_db_access' \ {<<u, c>>} = user_db_access \ {<<u, c>>}

----------------------------------------------------------------------------
(* Properties of closeAllPools *)

\* C26: when closeAllPools has returned, the registry is empty and every
\* pool that was registered when it was called has had its engine close
\* started, whether or not a close threw.
C26_CloseAllPools ==
    \A t \in Tasks :
        (tasks[t].op = "shutdown" /\ tasks[t].pc = "done")
        => /\ pools = <<>>
           /\ \A i \in 1..Len(tasks[t].trace) :
                 poolObjs[tasks[t].trace[i]].state # "open"

----------------------------------------------------------------------------
(* Properties of the statement classifier *)

\* the primary operation a leading keyword stands for
OperationOfKeyword(keyword) ==
    CASE keyword \in {"SELECT", "WITH"} -> "SELECT"
      [] keyword \in {"INSERT", "INTO"} -> "INSERT"
      [] keyword = "UPDATE" -> "UPDATE"
      [] keyword = "DELETE" -> "DELETE"
      [] keyword \in {"CREATE", "DROP", "ALTER", "TRUNCATE", "GRANT", "REVOKE",
                      "RENAME"} -> "DDL"
      [] OTHER -> "UNKNOWN"

\* C27: the operation validateSqlPermissions detects is the one of the
\* statement's first keyword, taken as a whole word after leading whitespace
\* and in any letter case; any other first word gives UNKNOWN.
C27_ClassifiedByFirstKeyword ==
    gate.fn = "validateSqlPermissions"
    => SqlTests[gate.sql].operation = OperationOfKeyword(LeadingKeyword(gate.sql))

----------------------------------------------------------------------------
(* Properties of getConnection against closePool *)

\* getConnection of the task has just returned a handle
ReturnsHandle(t) ==
    /\ tasks[t].pc = "gc_borrow"
    /\ tasks'[t].acquired = 1

\* C28: whenever getConnection returns a handle, the pool it was borrowed
\* from is open: no engine close has been started on it by closePool.
C28_HandleFromOpenPool ==
    [][\A t \in Tasks :
         ReturnsHandle(t) => poolObjs'[tasks[t].poolInfo].state = "open"]_vars

----------------------------------------------------------------------------
(* Properties of the registry key *)

\* the registry entries that belong to the connection with the given id
EntriesOf(id) == {i \in 1..Len(pools) : SqliteInteger(pools[i].key) = id}

\* C29: the requests for one connection resolve to one registry entry,
\* whether the id came as a number, as a numeric string or parsed from the
\* path: the registry holds at most one entry, and so one pool, per
\* connection.
C29_CanonicalRegistryKey ==
    \A id \in DOMAIN db_connections : Cardinality(EntriesOf(id)) <= 1

----------------------------------------------------------------------------
(* Properties of the user administration *)

\* the users authMiddleware and requireAdmin let through
ActiveAdmins == {u \in DOMAIN users : users[u].role = "ADMIN" /\ users[u].is_active # 0}

\* C30: after any sequence of update and delete requests of active
\* administrators, a user with role ADMIN and a truthy is_active remains.
C30_AnAdminRemains == ActiveAdmins # {}

====
